---------------------------- MODULE Spec2Model ----------------------------
(***************************************************************************)
(* A model of the adversarial training orchestration of unixpickle/gans:   *)
(* the policy-gradient Recurrent trainer (src/recurrent.go, second file),  *)
(* the trainers that compute both gradients at once (FM, the sequence-     *)
(* classification Recurrent and the length-terminating Recurrent), the     *)
(* reward shaping of sampleReward, the categorical sampling helpers with   *)
(* OneHotLayer, and FeedbackBlock.                                         *)
(*                                                                         *)
(* Floating-point vectors are modelled in exact arithmetic: probabilities  *)
(* are integers counted in units of 1/Unit, rewards and discount factors   *)
(* are normalised fractions <<numerator, denominator>>.  The networks      *)
(* (autofunc, seqfunc, rnn, neuralnet) are external collaborators: what    *)
(* they compute is drawn from small sets, what the repository's code does  *)
(* with it is computed as the code computes it.                            *)
(***************************************************************************)
EXTENDS Integers, Sequences, FiniteSets, TLC

(***************************************************************************)
(* Bounds of the model.                                                    *)
(***************************************************************************)
\* largest value of GenIterations and of DiscIterations
MaxIter == 2
\* number of Gradient calls followed on one trainer
MaxCalls == 6
\* largest RandomSize
MaxRandomSize == 2
\* largest number of samples in a batch
MaxBatch == 2
\* length of every parameter vector
ParamLen == 2
\* largest number of optimizer updates between Gradient calls
MaxUpdates == 2
\* number of noise batches a trainer is followed for
MaxNoiseCalls == 2
\* how many elements more than Serialize writes a persisted slice may have
ExtraElems == 1
\* probabilities and uniform draws are multiples of 1/Unit
Unit == 4
\* size of a policy output vector; largest input of the sampling helpers
VecSize == 2
\* largest number of timesteps in a batch of generated sequences
MaxSteps == 3
\* largest number of batch lanes of a FeedbackBlock run
MaxLanes == 2
\* number of timesteps a FeedbackBlock run is followed for
MaxTime == 2

(***************************************************************************)
(* Exact fractions <<n, d>> with d > 0 and gcd(n, d) = 1.                  *)
(***************************************************************************)
Abs(x) == IF x < 0 THEN -x ELSE x

RECURSIVE Gcd(_, _)
Gcd(a, b) == IF b = 0 THEN a ELSE Gcd(b, a % b)

Rat(n, d) ==
    LET s == IF d < 0 THEN -1 ELSE 1
        g == Gcd(Abs(n), Abs(d))
    IN  <<(s * n) \div g, (s * d) \div g>>

RZero == <<0, 1>>
ROne == <<1, 1>>
RAdd(a, b) == Rat(a[1] * b[2] + b[1] * a[2], a[2] * b[2])
RMul(a, b) == Rat(a[1] * b[1], a[2] * b[2])
RNeg(a) == <<-a[1], a[2]>>
RInv(a) == Rat(a[2], a[1])

(***************************************************************************)
(* Sequences.                                                              *)
(***************************************************************************)
SeqsUpTo(S, lo, hi) == UNION {[1..n -> S] : n \in lo..hi}

RECURSIVE SumSeq(_)
SumSeq(s) == IF s = <<>> THEN 0 ELSE Head(s) + SumSeq(Tail(s))

Count(s, x) == Cardinality({i \in DOMAIN s : s[i] = x})

Last(s) == s[Len(s)]

VARIABLES
    \* ---- the trainer under study
    kind,            \* which trainer: "policy", "fm", "seqclass", "lenterm"
    origin,          \* how it was made: "literal" or "deserialized"
    GenIterations,   \* Recurrent.GenIterations
    DiscIterations,  \* Recurrent.DiscIterations
    RandomSize,      \* Recurrent.RandomSize
    DiscountFactor,  \* Recurrent.DiscountFactor, a fraction
    iterIdx,         \* Recurrent.iterIdx
    genParams,       \* the Generator's parameters (sgd.Learner.Parameters())
    discParams,      \* the Discriminator's parameters
    history,         \* the branch each Gradient call took, oldest first
    last,            \* what the last Gradient call did and returned
    blob,            \* the last result of Serialize, or NoBlob
    paramVals,       \* the value of every parameter's vector
    optSteps,        \* the number of updates the external optimizer has made
    GenTrans,        \* Recurrent.GenTrans: whether set, and its Transform calls
    DiscTrans,       \* Recurrent.DiscTrans
    \* ---- one call of sampleReward
    rwStage,         \* "idle", "input" (policyOut given) or "done"
    policyLens,      \* the shape of policyOut: the length of each sequence
    rwChoice,        \* the symbol sampleGenSeq sampled, per sequence and timestep
    rwOut,           \* the discriminator's sigmoid output, per sequence and timestep
    rwCumulative,    \* the value returned: cumulativeRewards
    \* ---- one call of a sampling helper or of OneHotLayer.Apply
    smIn,            \* the probability vector (for Apply: the softmax of the input)
    smDraw,          \* rand.Float64(), in units of 1/Unit
    smOp,            \* the function applied, "none" before
    smIdx,           \* the index returned or chosen (1-based)
    smOut,           \* the vector Apply returned
    \* ---- a FeedbackBlock and one run of it over a batch
    InitFeedback,    \* FeedbackBlock.InitFeedback.Vector
    fbStates,        \* the current feedbackBlockState of every lane
    fbTime,          \* the number of ApplyBlock calls of the run
    fbLast,          \* what the last ApplyBlock call saw and returned
    fbGrad,          \* the caller's gradient map g of the backward pass
    fbBack,          \* what the last PropagateGradient / PropagateStart did
    \* ---- the noise a sequence trainer feeds its generator
    MaxLen,          \* Recurrent.MaxLen of the length-terminating trainer
    nzLens,          \* the length of each real sample's input sequence
    nzNoise,         \* the noise batch: the length of every vector of every sequence
    nzDraws,         \* the rand.NormFloat64() calls made for the last noise batch
    nzCalls,         \* the number of noise batches built so far
    \* --- Serialize of the trainers and of FeedbackBlock ---
    serObj,          \* the object: its type, the capability of each part, its fields
    serOut,          \* the result of the last Serialize call: error and data
    \* --- the deserializers ---
    dsIn,            \* the bytes given to the last deserializer call
    dsOut,           \* its result: the deserializer, the error, the object
    \* --- the demo's ExpBlock (values in units of 1/Hundred) ---
    expW,            \* StateTrans.Weights: expW[i][j] multiplies state entry j
    expBias,         \* StateTrans.Biases
    expEmb,          \* InputWeights: one embedding vector per input entry
    expIn,           \* the constant external input
    expInit,         \* the state before the first step
    expState,        \* the state now
    expN,            \* the number of steps taken
    \* --- the per-timestep costs of the sequence trainers (1/Hundred) ---
    scReal,          \* the discriminator's output on the real batch
    scGenOut,        \* the generator's output vectors on the noise batch
    scDisc,          \* the discriminator's output on the generated batch
    scAct,           \* Recurrent.GenActivation of the length-terminating trainer
    scOut            \* what the last cost or gradient helper computed

trainerVars == <<kind, origin, GenIterations, DiscIterations, RandomSize, DiscountFactor,
                 iterIdx, genParams, discParams, history, last, blob,
                 paramVals, optSteps, GenTrans, DiscTrans>>

rewardVars == <<rwStage, policyLens, rwChoice, rwOut, rwCumulative>>

samplingVars == <<smIn, smDraw, smOp, smIdx, smOut>>

feedbackVars == <<InitFeedback, fbStates, fbTime, fbLast, fbGrad, fbBack>>

noiseVars == <<MaxLen, nzLens, nzNoise, nzDraws, nzCalls>>

serVars == <<serObj, serOut>>

dsVars == <<dsIn, dsOut>>

expVars == <<expW, expBias, expEmb, expIn, expInit, expState, expN>>

scVars == <<scReal, scGenOut, scDisc, scAct, scOut>>

auxVars == <<serVars, dsVars, expVars, scVars>>

vars == <<trainerVars, rewardVars, samplingVars, feedbackVars, noiseVars, auxVars>>

\* what the actions of each component leave alone
outsideTrainer == <<rewardVars, samplingVars, feedbackVars, noiseVars, auxVars>>
outsideReward == <<trainerVars, samplingVars, feedbackVars, noiseVars, auxVars>>
outsideSampling == <<trainerVars, rewardVars, feedbackVars, noiseVars, auxVars>>
outsideFeedback == <<trainerVars, rewardVars, samplingVars, noiseVars, auxVars>>
outsideNoise == <<rewardVars, samplingVars, feedbackVars, auxVars>>
outsideAux == <<trainerVars, rewardVars, samplingVars, feedbackVars, noiseVars>>

\* a nil sgd.Transformer field
NilTransformer == [set |-> FALSE, calls |-> 0]

\* a Recurrent whose GenTrans and DiscTrans are nil
NoTransformers == GenTrans = NilTransformer /\ DiscTrans = NilTransformer

\* the components a specification does not exercise stay as they are here
TrainerIdle ==
    /\ kind = "none"
    /\ origin = "literal"
    /\ GenIterations = 0
    /\ DiscIterations = 0
    /\ RandomSize = 1
    /\ DiscountFactor = <<0, 1>>
    /\ iterIdx = 0
    /\ genParams = {}
    /\ discParams = {}
    /\ history = <<>>
    /\ last = [status |-> "none", branch |-> "none", touched |-> {}, grad |-> <<>>,
               sub |-> [gen |-> <<>>, disc |-> <<>>]]
    /\ blob = [present |-> FALSE]
    /\ paramVals = <<>>
    /\ optSteps = 0
    /\ NoTransformers

RewardIdle ==
    /\ rwStage = "idle"
    /\ policyLens = <<>>
    /\ rwChoice = <<>>
    /\ rwOut = <<>>
    /\ rwCumulative = <<>>

SamplingIdle ==
    /\ smIn = <<>>
    /\ smDraw = 0
    /\ smOp = "none"
    /\ smIdx = 0
    /\ smOut = <<>>

NoiseIdle ==
    /\ MaxLen = 1
    /\ nzLens = <<>>
    /\ nzNoise = <<>>
    /\ nzDraws = 0
    /\ nzCalls = 0

SerializeIdle ==
    /\ serObj = [type |-> "none"]
    /\ serOut = [called |-> FALSE]

\* the serialization and demo-block components, not constructed
DeserializeIdle ==
    /\ dsIn = [form |-> "none"]
    /\ dsOut = [called |-> FALSE, by |-> "none"]

ExpIdle ==
    /\ expW = <<>>
    /\ expBias = <<>>
    /\ expEmb = <<>>
    /\ expIn = <<>>
    /\ expInit = <<>>
    /\ expState = <<>>
    /\ expN = 0

SeqCostIdle ==
    /\ scReal = <<>>
    /\ scGenOut = <<>>
    /\ scDisc = <<>>
    /\ scAct = "nil"
    /\ scOut = [op |-> "none"]

RestIdle == SerializeIdle /\ DeserializeIdle /\ ExpIdle /\ SeqCostIdle

AuxIdle == NoiseIdle /\ RestIdle

FeedbackIdle ==
    /\ InitFeedback = <<>>
    /\ fbStates = <<>>
    /\ fbTime = 0
    /\ fbLast = [called |-> FALSE]
    /\ fbGrad = <<>>
    /\ fbBack = [op |-> "none"]

(***************************************************************************)
(* Parameters and gradient maps (autofunc.Gradient: a map from a variable  *)
(* to an accumulator vector).                                              *)
(***************************************************************************)
\* The parameter sets of a generator/discriminator pair.  The data model
\* keeps them disjoint; nothing in the code enforces it, so a pair sharing
\* the variable "s" can be handed to a trainer as well.
ParamConfigs ==
    { [gen |-> {"g"}, disc |-> {"d"}],
      [gen |-> {"g", "s"}, disc |-> {"d", "s"}] }

\* gradient contributions a network's back-propagation may add to one
\* parameter (every coordinate gets the same amount here)
Contribs == {-1, 0, 1}

DiscountFactors == { <<0, 1>>, <<1, 2>>, <<1, 1>> }

ZeroVec == [i \in 1..ParamLen |-> 0]
Fill(c) == [i \in 1..ParamLen |-> c]
VecAdd(a, b) == [i \in DOMAIN a |-> a[i] + b[i]]

\* autofunc.NewGradient(params): a zero accumulator for every parameter
NewGradient(ps) == [p \in ps |-> ZeroVec]

\* Result.PropagateGradient(upstream, grad) of a result that depends on the
\* variables deps: only variables that are keys of grad accumulate.
PropagateGradient(grad, deps, c) ==
    [p \in DOMAIN grad |-> IF p \in deps THEN VecAdd(grad[p], Fill(c[p])) ELSE grad[p]]

\* The vectors a Gradient call writes in place are the accumulators of
\* its gradient maps.  A vector is named by what holds it.
ParameterVector(p) == <<"parameter", p>>

\* an accumulator that is the parameter's own vector
AccumulatorAliasing(p) == <<"parameter", p>>

\* NewGradient allocates every accumulator: make(linalg.Vector, len(...))
Accumulator(p) == <<"accumulator", p>>

\* the parameter values after a call that accumulated grad
AfterWrites(vals, grad) ==
    [p \in DOMAIN vals |->
        IF \E q \in DOMAIN grad : Accumulator(q) = ParameterVector(p)
        THEN VecAdd(vals[p], grad[p])
        ELSE vals[p]]

\* The merge loop at the end of every Gradient: res[k] = v, first for the
\* generator's map, then for the discriminator's.
Merge(genGrad, discGrad) ==
    [p \in (DOMAIN genGrad) \cup (DOMAIN discGrad) |->
        IF p \in DOMAIN discGrad THEN discGrad[p] ELSE genGrad[p]]

\* the length-terminating trainer merges the discriminator's map first and
\* the generator's second; the others as above
MergeOf(k, genGrad, discGrad) ==
    IF k = "lenterm" THEN Merge(discGrad, genGrad) ELSE Merge(genGrad, discGrad)

(***************************************************************************)
(* Sample batches (sgd.SampleSet).                                         *)
(***************************************************************************)
\* a batch is the sequence of its samples' types: a seqtoseq.Sample or a
\* neuralnet.VectorSample
SampleTypes == {"seq", "vec"}
Batches == SeqsUpTo(SampleTypes, 1, MaxBatch)

\* s.GetSample(i).(seqtoseq.Sample) for every i: panics on the first sample
\* of another type
AllOfTypeFirstOnly(batch, t) == batch[1] = t

AllOfType(batch, t) == \A i \in DOMAIN batch : batch[i] = t

\* the position of the sample whose assertion panics
FirstWrong(batch, t) ==
    IF \A i \in DOMAIN batch : batch[i] = t THEN 0
    ELSE CHOOSE i \in DOMAIN batch :
             batch[i] # t /\ \A j \in 1..(i - 1) : batch[j] = t

(***************************************************************************)
(* The policy-gradient Recurrent trainer.                                  *)
(***************************************************************************)
NoBlob == [present |-> FALSE]
\* last.sub holds the two sub-gradients the call merged
NoSub == [gen |-> <<>>, disc |-> <<>>]
NoCall == [status |-> "none", branch |-> "none", touched |-> {}, grad |-> <<>>,
           sub |-> NoSub]

\* subIdx := r.iterIdx % (r.GenIterations + r.DiscIterations)
SubIdx == iterIdx % (GenIterations + DiscIterations)

\* r.iterIdx++
NextIterIdxByTwo == iterIdx + 2

NextIterIdx == iterIdx + 1

\* if subIdx < r.DiscIterations { discriminator } else { generator }
BranchOfInclusive(subIdx) == IF subIdx <= DiscIterations THEN "disc" ELSE "gen"

BranchOf(subIdx) == IF subIdx < DiscIterations THEN "disc" ELSE "gen"

\* The discriminator branch: DiscCost(s).PropagateGradient({1}, discGrad).
\* DiscCost feeds the discriminator the sampled sequences as constants
\* (seqfunc.ConstResult), so the cost depends on the discriminator alone.
DiscBranchThroughGenerator(c) ==
    [ genGrad  |-> PropagateGradient(NewGradient(genParams), genParams, c),
      discGrad |-> PropagateGradient(NewGradient(discParams), discParams, c),
      touched  |-> {"disc", "gen"} ]

DiscBranch(c) ==
    [ genGrad  |-> NewGradient(genParams),
      discGrad |-> PropagateGradient(NewGradient(discParams), discParams, c),
      touched  |-> {"disc"} ]

\* The generator branch: genOut.PropagateGradient(upstream, genGrad), with
\* the upstream of sampleReward, a constant.
GenBranch(c) ==
    [ genGrad  |-> PropagateGradient(NewGradient(genParams), genParams, c),
      discGrad |-> NewGradient(discParams),
      touched  |-> {"gen"} ]

\* The outcomes of a Gradient call that returns nothing.
DividePanic ==
    [status |-> "panic_divide", branch |-> "none", touched |-> {}, grad |-> <<>>,
     sub |-> NoSub]
TypePanic(branch, at) ==
    [status |-> "panic_type", branch |-> branch, touched |-> {}, grad |-> <<>>,
     sub |-> NoSub, at |-> at]

\* sgd.Transformer.Transform: a new gradient map with the same keys; the
\* transformer here doubles every entry
Transform(g) == [p \in DOMAIN g |-> [i \in DOMAIN g[p] |-> 2 * g[p][i]]]

\* the transformer after one more Transform call
Called(t) == [t EXCEPT !.calls = @ + 1]

\* a variant that transforms with the other phase's transformer
TransformerOfSwapped(branch) == IF branch = "disc" THEN "GenTrans" ELSE "DiscTrans"

\* the transformer field each branch of Gradient reads
TransformerOf(branch) == IF branch = "disc" THEN "DiscTrans" ELSE "GenTrans"

\* if r.DiscTrans != nil { ... } / if r.GenTrans != nil { ... }
Applies(branch, field, t) == t.set /\ TransformerOf(branch) = field

\* a variant that counts the call only once its samples were accepted
IterIdxAfterSamples(typed) == IF typed THEN NextIterIdx ELSE iterIdx

\* r.iterIdx++ stands before either branch reads the batch: the counter
\* after the call does not depend on the samples
IterIdxAfter(typed) == NextIterIdx

\* func (r *Recurrent) Gradient(s sgd.SampleSet) autofunc.Gradient
Gradient(batch) ==
    /\ kind = "policy"
    /\ UNCHANGED outsideTrainer
    /\ Len(history) < MaxCalls
    /\ UNCHANGED <<kind, origin, GenIterations, DiscIterations, RandomSize,
                   DiscountFactor, genParams, discParams, blob, optSteps>>
    /\ IF GenIterations + DiscIterations = 0
       THEN \* integer divide by zero at the computation of subIdx
            /\ iterIdx' = iterIdx
            /\ history' = Append(history, "none")
            /\ last' = DividePanic
            /\ UNCHANGED <<GenTrans, DiscTrans>>
       ELSE LET branch == BranchOf(SubIdx)
            IN  /\ iterIdx' = IterIdxAfter(AllOfType(batch, "seq"))
                /\ history' = Append(history, branch)
                /\ IF AllOfType(batch, "seq")
                   THEN /\ \E c \in [genParams \cup discParams -> Contribs] :
                             LET sub == IF branch = "disc" THEN DiscBranch(c)
                                                          ELSE GenBranch(c)
                                 genGrad == IF Applies(branch, "GenTrans", GenTrans)
                                            THEN Transform(sub.genGrad)
                                            ELSE sub.genGrad
                                 discGrad == IF Applies(branch, "DiscTrans", DiscTrans)
                                             THEN Transform(sub.discGrad)
                                             ELSE sub.discGrad
                             IN  last' = [status |-> "ok", branch |-> branch,
                                          touched |-> sub.touched,
                                          grad |-> Merge(genGrad, discGrad),
                                          sub |-> [gen |-> genGrad,
                                                   disc |-> discGrad],
                                          raw |-> [gen |-> sub.genGrad,
                                                   disc |-> sub.discGrad]]
                        /\ GenTrans' = IF Applies(branch, "GenTrans", GenTrans)
                                       THEN Called(GenTrans) ELSE GenTrans
                        /\ DiscTrans' = IF Applies(branch, "DiscTrans", DiscTrans)
                                        THEN Called(DiscTrans) ELSE DiscTrans
                   ELSE \* generatorSeed panics on the type assertion
                        /\ last' = TypePanic(branch, FirstWrong(batch, "seq"))
                        /\ UNCHANGED <<GenTrans, DiscTrans>>
    /\ paramVals' = IF last'.status = "ok"
                    THEN AfterWrites(paramVals, last'.grad) ELSE paramVals

GradientCall == \E batch \in Batches : Gradient(batch)

\* func (r *Recurrent) Serialize() ([]byte, error)
Serialize ==
    [present |-> TRUE, RandomSize |-> RandomSize, DiscountFactor |-> DiscountFactor]

SerializeCall ==
    /\ kind = "policy"
    /\ UNCHANGED outsideTrainer
    /\ blob' = Serialize
    /\ UNCHANGED <<kind, origin, GenIterations, DiscIterations, RandomSize,
                   DiscountFactor, iterIdx, genParams, discParams, history, last,
                   paramVals, optSteps, GenTrans, DiscTrans>>

\* func DeserializeRecurrent(d []byte) (*Recurrent, error): the trainer
\* under study becomes the one it returns.
DeserializeRecurrent ==
    /\ kind = "policy"
    /\ UNCHANGED outsideTrainer
    /\ blob.present
    /\ GenIterations' = 0
    /\ DiscIterations' = 0
    /\ iterIdx' = 0
    /\ RandomSize' = blob.RandomSize
    /\ DiscountFactor' = blob.DiscountFactor
    /\ history' = <<>>
    /\ last' = NoCall
    /\ origin' = "deserialized"
    /\ GenTrans' = NilTransformer
    /\ DiscTrans' = NilTransformer
    /\ UNCHANGED <<kind, genParams, discParams, blob, paramVals, optSteps>>

\* The caller's assignments to the exported fields before training starts
\* (model.DiscIterations = 1; model.GenIterations = 1 in the demo).
SetIterations ==
    /\ kind = "policy"
    /\ UNCHANGED outsideTrainer
    /\ history = <<>>
    /\ \E g \in 0..MaxIter, k \in 0..MaxIter :
          /\ GenIterations' = g
          /\ DiscIterations' = k
    /\ UNCHANGED <<kind, origin, RandomSize, DiscountFactor, iterIdx, genParams,
                   discParams, history, last, blob, paramVals, optSteps,
                   GenTrans, DiscTrans>>

\* &gans.Recurrent{...}: any field values, iterIdx zero
TrainerInit ==
    /\ kind = "policy"
    /\ origin = "literal"
    /\ GenIterations \in 0..MaxIter
    /\ DiscIterations \in 0..MaxIter
    /\ RandomSize \in 1..MaxRandomSize
    /\ DiscountFactor \in DiscountFactors
    /\ iterIdx = 0
    /\ \E pc \in ParamConfigs : genParams = pc.gen /\ discParams = pc.disc
    /\ history = <<>>
    /\ last = NoCall
    /\ blob = NoBlob
    /\ paramVals = [p \in genParams \cup discParams |-> ZeroVec]
    /\ optSteps = 0
    /\ NoTransformers

Init == TrainerInit /\ RewardIdle /\ SamplingIdle /\ FeedbackIdle /\ AuxIdle

Next ==
    \/ GradientCall
    \/ SerializeCall
    \/ DeserializeRecurrent
    \/ SetIterations

Spec == Init /\ [][Next]_vars

(***************************************************************************)
(* The trainers that compute both gradients in one call: FM (feature       *)
(* matching on vectors), the sequence-classification Recurrent and the     *)
(* length-terminating Recurrent.  They have no iteration counter.          *)
(***************************************************************************)
VariantKinds == {"fm", "seqclass", "lenterm"}

\* the sample type each Gradient asserts: neuralnet.VectorSample in FM,
\* seqtoseq.Sample in the sequence trainers
SampleTypeOf(k) == IF k = "fm" THEN "vec" ELSE "seq"

\* The PropagateGradient / Gradient calls one Gradient call makes, in the
\* code's order: the cost propagated, the label it was computed with, the
\* upstream scale, the networks the cost depends on and the map (into)
\* that receives it.
PropagationsDiscriminatorOnly(k) ==
    << [cost |-> "realDiscrimCost", label |-> 1, upstream |-> <<1, 10>>,
        deps |-> {"disc"}, into |-> "disc"] >>

Propagations(k) ==
    CASE k = "fm" ->
           << [cost |-> "genCost", label |-> "realMean", upstream |-> <<1, 1>>,
               deps |-> {"gen", "disc"}, into |-> "gen"],
              [cost |-> "realDiscrimCost", label |-> 1, upstream |-> <<1, 10>>,
               deps |-> {"disc"}, into |-> "disc"],
              [cost |-> "genDiscrimCost", label |-> 0, upstream |-> <<1, 10>>,
               deps |-> {"gen", "disc"}, into |-> "disc"] >>
      [] k = "seqclass" ->
           << [cost |-> "discRealResults", label |-> 1, upstream |-> <<1, 1>>,
               deps |-> {"disc"}, into |-> "disc"],
              [cost |-> "discGenResults", label |-> 0, upstream |-> <<1, 1>>,
               deps |-> {"gen", "disc"}, into |-> "disc"],
              [cost |-> "genFeatures", label |-> "realAvg", upstream |-> <<1, 1>>,
               deps |-> {"gen", "disc"}, into |-> "gen"] >>
      [] k = "lenterm" ->
           << [cost |-> "sampleGradients", label |-> 1, upstream |-> <<1, 1>>,
               deps |-> {"disc"}, into |-> "disc"],
              [cost |-> "propGenThroughDisc", label |-> 0, upstream |-> <<1, 1>>,
               deps |-> {"gen", "disc"}, into |-> "disc"],
              [cost |-> "propGenThroughGen", label |-> 1, upstream |-> <<1, 1>>,
               deps |-> {"gen", "disc"}, into |-> "gen"] >>

\* the parameters of a set of networks
ParamsOf(nets) ==
    (IF "gen" \in nets THEN genParams ELSE {}) \cup
    (IF "disc" \in nets THEN discParams ELSE {})

\* the parameters that accumulate at one propagation: the keys of the map
\* it goes into that its cost depends on
Accumulating(prop) == ParamsOf({prop.into}) \cap ParamsOf(prop.deps)

\* what the networks may add at each propagation of props, from the i-th on
RECURSIVE ContribSeqs(_, _)
ContribSeqs(props, i) ==
    IF i > Len(props) THEN {<<>>}
    ELSE {<<c>> \o rest : c \in [Accumulating(props[i]) -> Contribs],
                          rest \in ContribSeqs(props, i + 1)}

\* grad after the propagations i.. of props that go into the map named
\* target, cs[i] being what the networks add at propagation i
RECURSIVE ApplyPropagations(_, _, _, _, _)
ApplyPropagations(grad, props, cs, target, i) ==
    IF i > Len(props) THEN grad
    ELSE ApplyPropagations(
            IF props[i].into = target
                THEN PropagateGradient(grad, Accumulating(props[i]), cs[i])
                ELSE grad,
            props, cs, target, i + 1)

\* Gradient of FM and of the two Recurrent trainers that merge a generator
\* and a discriminator gradient computed in the same call
VariantGradient(batch) ==
    /\ kind \in VariantKinds
    /\ UNCHANGED outsideTrainer
    /\ UNCHANGED <<kind, origin, GenIterations, DiscIterations, RandomSize,
                   DiscountFactor, iterIdx, genParams, discParams, history, blob,
                   optSteps, GenTrans, DiscTrans>>
    /\ IF AllOfType(batch, SampleTypeOf(kind))
       THEN LET props == Propagations(kind)
            IN  \E cs \in ContribSeqs(props, 1) :
                   LET genGrad == ApplyPropagations(NewGradient(genParams),
                                                    props, cs, "gen", 1)
                       discGrad == ApplyPropagations(NewGradient(discParams),
                                                     props, cs, "disc", 1)
                   IN  last' = [status |-> "ok", branch |-> "both",
                                touched |-> {props[i].into : i \in DOMAIN props},
                                grad |-> MergeOf(kind, genGrad, discGrad),
                                sub |-> [gen |-> genGrad, disc |-> discGrad]]
       ELSE last' = TypePanic("both", FirstWrong(batch, SampleTypeOf(kind)))
    /\ paramVals' = IF last'.status = "ok"
                    THEN AfterWrites(paramVals, last'.grad) ELSE paramVals

VariantGradientCall == \E batch \in Batches : VariantGradient(batch)

\* &gans.FM{...}, &gans.Recurrent{...} of the other two designs
VariantInit ==
    /\ kind \in VariantKinds
    /\ origin = "literal"
    /\ GenIterations = 0
    /\ DiscIterations = 0
    /\ RandomSize \in 1..MaxRandomSize
    /\ DiscountFactor = <<0, 1>>
    /\ iterIdx = 0
    /\ \E pc \in ParamConfigs : genParams = pc.gen /\ discParams = pc.disc
    /\ history = <<>>
    /\ last = NoCall
    /\ blob = NoBlob
    /\ paramVals = [p \in genParams \cup discParams |-> ZeroVec]
    /\ optSteps = 0
    /\ NoTransformers

InitVariants == VariantInit /\ RewardIdle /\ SamplingIdle /\ FeedbackIdle /\ AuxIdle

NextVariants == VariantGradientCall

SpecVariants == InitVariants /\ [][NextVariants]_vars

(***************************************************************************)
(* Properties of the policy-gradient trainer.                              *)
(***************************************************************************)
Period == GenIterations + DiscIterations

\* the branch the schedule assigns to the n-th call (n = 1, 2, ...)
Slot(n) == IF (n - 1) % Period < DiscIterations THEN "disc" ELSE "gen"

\* C1: with GenIterations = g and DiscIterations = k, g + k > 0, every
\* window of g + k consecutive Gradient calls, wherever it starts, holds
\* exactly g generator calls and exactly k discriminator calls.
C1_WindowCounts ==
    (kind = "policy" /\ Period > 0) =>
        \A i \in 1..Len(history) :
            (i + Period - 1 <= Len(history)) =>
                LET w == SubSeq(history, i, i + Period - 1)
                IN  /\ Count(w, "gen") = GenIterations
                    /\ Count(w, "disc") = DiscIterations

\* a window that starts inside a cycle of an uneven schedule has been seen
C1_Witness ==
    /\ kind = "policy"
    /\ GenIterations = 2
    /\ DiscIterations = 1
    /\ Len(history) >= 5

C3_DefaultOneToOne ==
    (kind = "policy" /\ GenIterations = 0 /\ DiscIterations = 0
        /\ history # <<>> /\ last.status # "panic_type") =>
        /\ last.status = "ok"
        /\ \A n \in DOMAIN history :
              history[n] = (IF n % 2 = 1 THEN "disc" ELSE "gen")

\* a trainer straight from DeserializeRecurrent has been asked for gradients
\* twice, and the last call ended in the division's panic
C3_Witness ==
    /\ kind = "policy"
    /\ origin = "deserialized"
    /\ GenIterations = 0
    /\ DiscIterations = 0
    /\ Len(history) >= 2
    /\ last.status = "panic_divide"

\* C4: with disjoint generator and discriminator parameter sets, the map a
\* discriminator-phase call returns holds an all-zero accumulator for every
\* generator parameter, and the map a generator-phase call returns holds an
\* all-zero accumulator for every discriminator parameter.
C4_OneNetworkPerCall ==
    (kind = "policy" /\ last.status = "ok" /\ genParams \cap discParams = {}) =>
        /\ DOMAIN last.grad = genParams \cup discParams
        /\ last.branch = "disc" =>
              /\ last.touched = {"disc"}
              /\ \A p \in genParams : last.grad[p] = ZeroVec
        /\ last.branch = "gen" =>
              /\ last.touched = {"gen"}
              /\ \A p \in discParams : last.grad[p] = ZeroVec

\* a discriminator-phase call has returned a non-zero discriminator gradient
C4_Witness ==
    /\ kind = "policy"
    /\ last.status = "ok"
    /\ last.branch = "disc"
    /\ genParams \cap discParams = {}
    /\ \E p \in discParams : last.grad[p] # ZeroVec

(***************************************************************************)
(* Properties of the trainers that compute both gradients in one call.     *)
(***************************************************************************)
\* C5 as stated: a Gradient call of FM, of the sequence-classification
\* Recurrent or of the length-terminating Recurrent propagates cost into
\* the generator's parameters or into the discriminator's, never into both.
C5_VariantsOneNetworkPerCall ==
    (kind \in VariantKinds /\ last.status = "ok") =>
        ~({"gen", "disc"} \subseteq last.touched)

\* C5 amended: these three trainers do not alternate.  Every Gradient call
\* that returns propagates the discriminator's costs into the
\* discriminator's map and the generator's cost into the generator's map,
\* and returns the merge of both, with an accumulator for every parameter
\* of either network.
C5_VariantsBothNetworksPerCall ==
    (kind \in VariantKinds /\ last.status = "ok") =>
        /\ last.touched = {"gen", "disc"}
        /\ last.branch = "both"
        /\ DOMAIN last.grad = genParams \cup discParams

\* one FM call has returned non-zero gradients for both networks
C5_Witness ==
    /\ kind = "fm"
    /\ last.status = "ok"
    /\ genParams \cap discParams = {}
    /\ \E p \in genParams : last.grad[p] # ZeroVec
    /\ \E p \in discParams : last.grad[p] # ZeroVec


\* ---------------------------------------------------------------------
\* Categorical sampling.  A probability is an integer count of 1/Unit; the
\* uniform draw rand.Float64() is one of 0/Unit .. (Unit-1)/Unit.  Go's
\* index i is index i+1 here, so "no index" (-1 in Go) is 0.
\* ---------------------------------------------------------------------

Draws == 0 .. (Unit - 1)

\* vectors of probabilities whose sum does not exceed one
SubProbVecs(n) == {p \in [1..n -> 0..Unit] : SumSeq(p) <= Unit}

\* the outputs of a softmax (or the exponentials of a log-softmax)
ProbVecs(n) == {p \in SubProbVecs(n) : SumSeq(p) = Unit}

\* the loop shared by the helpers: subtract each entry in order and return
\* the first index at which the remainder is negative; 0 if the loop ends
RECURSIVE FirstNegative(_, _, _)
FirstNegative(p, n, i) ==
    IF i > Len(p) THEN 0
    ELSE IF n - p[i] < 0 THEN i
    ELSE FirstNegative(p, n - p[i], i + 1)

\* chooseRandom comparing n <= 0 in place of n < 0
RECURSIVE FirstNonPositive(_, _, _)
FirstNonPositive(p, n, i) ==
    IF i > Len(p) THEN Len(p)
    ELSE IF n - p[i] <= 0 THEN i
    ELSE FirstNonPositive(p, n - p[i], i + 1)

chooseRandomNonPositive(p, u) == FirstNonPositive(p, u, 1)

\* chooseRandom: falls back to the last index, len(in) - 1
chooseRandom(p, u) ==
    LET i == FirstNegative(p, u, 1) IN IF i = 0 THEN Len(p) ELSE i

\* sampleVector: the entries are log-probabilities and p[i] is exp of
\* them; falls back to index 0 of Go
sampleVector(p, u) ==
    LET i == FirstNegative(p, u, 1) IN IF i = 0 THEN 1 ELSE i

\* randomSample of the text demo: the same loop over exp of the entries;
\* falls back to the last index, len(probs) - 1
randomSample(p, u) ==
    LET i == FirstNegative(p, u, 1) IN IF i = 0 THEN Len(p) ELSE i

\* the k-th term of the series of e^y, y in hundredths, in thousandths
RECURSIVE ExpTerm(_, _)
ExpTerm(y, k) ==
    IF k = 0 THEN 1000 ELSE (ExpTerm(y, k - 1) * y) \div (100 * k)

RECURSIVE ExpSeries(_, _)
ExpSeries(y, k) ==
    IF k = 0 THEN ExpTerm(y, 0) ELSE ExpSeries(y, k - 1) + ExpTerm(y, k)

\* math.Exp(x) of a log-probability x (hundredths, x <= 0; -1000 and below
\* stands for the logarithm of zero), rounded to the nearest 1/Unit
mathExp(x) ==
    IF x <= -1000 THEN 0
    ELSE (Unit * (1000000 \div ExpSeries(-x, 8)) + 500) \div 1000

\* the logarithm the log-softmax output layer emits for the probability
\* k/Unit: the least x in hundredths whose exponential reaches k/Unit
Reaches(k, x) == Unit * (1000000 \div ExpSeries(-x, 8)) >= 1000 * k

LogOf(k) ==
    CHOOSE x \in -250..0 : Reaches(k, x) /\ (x = -250 \/ ~Reaches(k, x - 1))

LogSoftmax(p) ==
    [i \in 1..Len(p) |-> IF p[i] = 0 THEN -1000 ELSE LogOf(p[i])]

\* the exponentials the log-probability helpers subtract, entry by entry
ExpEntries(v) == [i \in 1..Len(v) |-> mathExp(v[i])]

\* mask[idx] = 1 / sm.Output()[idx], every other entry of mask zero
Mask(sm, idx) ==
    [k \in 1..Len(sm) |-> IF k = idx THEN Rat(Unit, sm[idx]) ELSE RZero]

\* autofunc.Mul(mask, sm) without the softmax factor
MulMaskOnly(mask, sm) == mask

\* autofunc.Mul(mask, sm): the component-wise product
Mul(mask, sm) ==
    [k \in 1..Len(sm) |-> RMul(mask[k], Rat(sm[k], Unit))]

\* OneHotLayer.Apply on an input whose softmax is sm, drawing u
Apply(sm, u) ==
    IF Len(sm) = 0
    THEN [idx |-> 0, out |-> <<>>]
    ELSE LET idx == chooseRandom(sm, u)
         IN  [idx |-> idx, out |-> Mul(Mask(sm, idx), sm)]

chooseRandomCall ==
    /\ smOp = "none"
    /\ smOp' = "chooseRandom"
    /\ smIdx' = chooseRandom(smIn, smDraw)
    /\ UNCHANGED <<smIn, smDraw, smOut>>
    /\ UNCHANGED outsideSampling

\* sampleVector on the log-probabilities of the distribution smIn
sampleVectorCall ==
    /\ smOp = "none"
    /\ smOp' = "sampleVector"
    /\ smIdx' = sampleVector(ExpEntries(LogSoftmax(smIn)), smDraw)
    /\ UNCHANGED <<smIn, smDraw, smOut>>
    /\ UNCHANGED outsideSampling

\* randomSample on the log-probabilities of the distribution smIn
randomSampleCall ==
    /\ smOp = "none"
    /\ smOp' = "randomSample"
    /\ smIdx' = randomSample(ExpEntries(LogSoftmax(smIn)), smDraw)
    /\ UNCHANGED <<smIn, smDraw, smOut>>
    /\ UNCHANGED outsideSampling

\* the softmax of any input sums to one, and the empty input has none
ApplyCall ==
    /\ smOp = "none"
    /\ Len(smIn) = 0 \/ SumSeq(smIn) = Unit
    /\ smOp' = "Apply"
    /\ smIdx' = Apply(smIn, smDraw).idx
    /\ smOut' = Apply(smIn, smDraw).out
    /\ UNCHANGED <<smIn, smDraw>>
    /\ UNCHANGED outsideSampling

SamplingInit ==
    /\ smIn \in UNION {SubProbVecs(n) : n \in 0..VecSize}
    /\ smDraw \in Draws
    /\ smOp = "none"
    /\ smIdx = 0
    /\ smOut = <<>>

InitSampling == SamplingInit /\ TrainerIdle /\ RewardIdle /\ FeedbackIdle /\ AuxIdle

NextSampling ==
    chooseRandomCall \/ sampleVectorCall \/ randomSampleCall \/ ApplyCall

SpecSampling == InitSampling /\ [][NextSampling]_vars

\* ---------------------------------------------------------------------
\* sampleReward of the policy-gradient trainer
\* ---------------------------------------------------------------------

\* the discriminator's sigmoid outputs the model draws from
RewardValues == {<<0, 1>>, <<1, 2>>, <<3, 4>>}

\* the shapes of policyOut: one length per sequence
Shapes == {lens \in SeqsUpTo(1..MaxSteps, 1, MaxSteps) : SumSeq(lens) <= MaxSteps}

\* all sequences of sequences of the shape lens with entries in S
RECURSIVE Shaped(_, _)
Shaped(lens, S) ==
    IF lens = <<>> THEN {<<>>}
    ELSE {<<h>> \o t : h \in [1..Head(lens) -> S], t \in Shaped(Tail(lens), S)}

\* the symbols sampleVector can return for a policy output vector
Symbols == {sampleVector(p, u) : p \in ProbVecs(VecSize), u \in Draws}

\* v := make(linalg.Vector, len(vec)); v[choice] = 1
OneHot(choice) == [k \in 1..VecSize |-> IF k = choice THEN ROne ELSE RZero]

\* linalg.Vector.Scale
Scale(v, a) == [k \in 1..Len(v) |-> RMul(v[k], a)]

\* the upstream vector without the sign change
UpstreamPositive(v, cumulative) == Scale(v, cumulative)

\* cr[j] = sv[i][j].Scale(-cumulative)
Upstream(v, cumulative) == Scale(v, RNeg(cumulative))

\* the discount applied whatever the factor
DiscountAlways(cumulative, d) == RMul(cumulative, d)

\* if r.DiscountFactor != 0 { cumulative *= r.DiscountFactor }
Discount(cumulative, d) ==
    IF d # RZero THEN RMul(cumulative, d) ELSE cumulative

\* the loop over j from the last timestep down to the first
RECURSIVE ScanBack(_, _, _, _, _, _)
ScanBack(svSeq, outSeq, d, j, cumulative, cr) ==
    IF j = 0 THEN cr
    ELSE LET c == RAdd(cumulative, outSeq[j])
         IN  ScanBack(svSeq, outSeq, d, j - 1, Discount(c, d),
                      [cr EXCEPT ![j] = Upstream(svSeq[j], c)])

\* sampleReward, given the sampled symbols and the discriminator's outputs
sampleReward(choice, out, d) ==
    [i \in 1..Len(out) |->
        LET svSeq == [j \in 1..Len(choice[i]) |-> OneHot(choice[i][j])]
        IN  ScanBack(svSeq, out[i], d, Len(out[i]), RZero,
                     [j \in 1..Len(out[i]) |-> <<>>])]

\* one call: sampleGenSeq samples a symbol per timestep, the discriminator
\* (which keeps the shape of its input) scores every timestep
sampleRewardCall ==
    /\ rwStage = "input"
    /\ \E choice \in Shaped(policyLens, Symbols) :
       \E out \in Shaped(policyLens, RewardValues) :
          /\ rwChoice' = choice
          /\ rwOut' = out
          /\ rwCumulative' = sampleReward(choice, out, DiscountFactor)
    /\ rwStage' = "done"
    /\ UNCHANGED policyLens
    /\ UNCHANGED outsideReward

RewardInit ==
    /\ rwStage = "input"
    /\ policyLens \in Shapes
    /\ rwChoice = <<>>
    /\ rwOut = <<>>
    /\ rwCumulative = <<>>

\* the trainer is a literal with any discount factor
RewardTrainerInit ==
    /\ kind = "policy"
    /\ origin = "literal"
    /\ GenIterations = 1
    /\ DiscIterations = 1
    /\ RandomSize = 1
    /\ DiscountFactor \in DiscountFactors
    /\ iterIdx = 0
    /\ genParams = {"g"}
    /\ discParams = {"d"}
    /\ history = <<>>
    /\ last = NoCall
    /\ blob = NoBlob
    /\ paramVals = [p \in genParams \cup discParams |-> ZeroVec]
    /\ optSteps = 0
    /\ NoTransformers

InitReward == RewardInit /\ RewardTrainerInit /\ SamplingIdle /\ FeedbackIdle /\ AuxIdle

NextReward == sampleRewardCall

SpecReward == InitReward /\ [][NextReward]_vars


\* ---------------------------------------------------------------------
\* Properties of sampleReward (checked under SpecReward)
\* ---------------------------------------------------------------------

\* the cumulative reward of a timestep, as the returned signal carries it
CumulativeAt(i, t) == RNeg(rwCumulative[i][t][rwChoice[i][t]])

\* C6: in every sequence the cumulative reward of the last timestep is its
\* reward and that of timestep t is reward[t] + d * cumulative[t+1] for a
\* DiscountFactor d in (0,1]; with DiscountFactor 0 the result is the one
\* DiscountFactor 1 gives.
C6_DiscountedRecurrence ==
    rwStage = "done" =>
        /\ DiscountFactor # RZero =>
             \A i \in 1..Len(rwOut) :
                LET n == Len(rwOut[i])
                IN  /\ CumulativeAt(i, n) = rwOut[i][n]
                    /\ \A t \in 1..(n - 1) :
                          CumulativeAt(i, t) =
                              RAdd(rwOut[i][t],
                                   RMul(DiscountFactor, CumulativeAt(i, t + 1)))
        /\ DiscountFactor = RZero =>
             rwCumulative = sampleReward(rwChoice, rwOut, ROne)

C6_Witness ==
    /\ rwStage = "done"
    /\ DiscountFactor = <<1, 2>>
    /\ policyLens = <<3>>
    /\ rwOut[1] = << <<1, 2>>, <<3, 4>>, <<1, 2>> >>
    /\ CumulativeAt(1, 1) = ROne

\* the discounted sum of the rewards from timestep t onward
RECURSIVE FutureReward(_, _, _)
FutureReward(outSeq, d, t) ==
    IF t > Len(outSeq) THEN RZero
    ELSE RAdd(outSeq[t], RMul(d, FutureReward(outSeq, d, t + 1)))

EffectiveDiscount == IF DiscountFactor = RZero THEN ROne ELSE DiscountFactor

\* C7: the signal sampleReward returns has the shape of the policy output
\* (sequences, lengths, vector size); in every timestep vector the sampled
\* symbol's coordinate is -1 times the cumulative reward from that timestep
\* onward and every other coordinate is zero.
C7_UpstreamShapeAndValue ==
    rwStage = "done" =>
        /\ Len(rwCumulative) = Len(policyLens)
        /\ \A i \in 1..Len(policyLens) :
              /\ Len(rwCumulative[i]) = policyLens[i]
              /\ \A t \in 1..policyLens[i] :
                    /\ Len(rwCumulative[i][t]) = VecSize
                    /\ \A k \in 1..VecSize :
                          rwCumulative[i][t][k] =
                              IF k = rwChoice[i][t]
                              THEN RNeg(FutureReward(rwOut[i], EffectiveDiscount, t))
                              ELSE RZero

C7_Witness ==
    /\ rwStage = "done"
    /\ policyLens = <<2, 1>>
    /\ rwChoice[1] = <<VecSize, 1>>
    /\ rwCumulative[1][1][VecSize] # RZero
    /\ rwCumulative[2][1][rwChoice[2][1]] # RZero

\* ---------------------------------------------------------------------
\* Properties of the sampling helpers (checked under SpecSampling)
\* ---------------------------------------------------------------------

\* the sum of the first i probabilities
PrefixSum(p, i) == SumSeq(SubSeq(p, 1, i))

\* the original reading of C8: for a non-empty input the vector returned
\* by OneHotLayer.Apply has its one nonzero entry at the sampled index with
\* the value 1/p_chosen
C8_OneHotReciprocal ==
    (smOp = "Apply" /\ Len(smIn) > 0) =>
        /\ smIdx \in 1..Len(smIn)
        /\ Len(smOut) = Len(smIn)
        /\ \A k \in 1..Len(smIn) :
              smOut[k] = IF k = smIdx THEN Rat(Unit, smIn[smIdx]) ELSE RZero

\* C8: for a non-empty input the vector returned by OneHotLayer.Apply is
\* one-hot: every entry but the one at the sampled index is zero, and that
\* entry is the product of the mask's 1/p_chosen with p_chosen, that is 1.
C8_OneHotUnit ==
    (smOp = "Apply" /\ Len(smIn) > 0) =>
        /\ smIdx \in 1..Len(smIn)
        /\ smIn[smIdx] > 0
        /\ Len(smOut) = Len(smIn)
        /\ \A k \in 1..Len(smIn) :
              smOut[k] = IF k = smIdx THEN ROne ELSE RZero

C8_Witness ==
    /\ smOp = "Apply"
    /\ Len(smIn) = VecSize
    /\ smIdx = VecSize
    /\ smIn[smIdx] < Unit
    /\ smOut[smIdx] = ROne

\* C9: for a non-empty probability vector summing to one and a draw u in
\* [0,1), chooseRandom returns the one index i whose cumulative sums
\* satisfy sum(p[0..i-1]) <= u < sum(p[0..i]); the index is within the
\* vector and its probability is not zero.
C9_CumulativeSumSampling ==
    (smOp = "chooseRandom" /\ Len(smIn) > 0 /\ SumSeq(smIn) = Unit) =>
        /\ smIdx \in 1..Len(smIn)
        /\ PrefixSum(smIn, smIdx - 1) <= smDraw
        /\ smDraw < PrefixSum(smIn, smIdx)
        /\ \A j \in 1..Len(smIn) :
              (PrefixSum(smIn, j - 1) <= smDraw /\ smDraw < PrefixSum(smIn, j))
                  => j = smIdx
        /\ smIn[smIdx] # 0

C9_Witness ==
    /\ smOp = "chooseRandom"
    /\ Len(smIn) = VecSize
    /\ SumSeq(smIn) = Unit
    /\ smIn[1] = 0
    /\ smDraw = 0
    /\ smIdx = 2

\* C29: for the same draw u and the same distribution, sampleVector and
\* randomSample (given the log-probabilities) return the index that
\* chooseRandom returns for the probabilities, also when the remainder
\* never goes negative because the probabilities sum to no more than u.
C29_HelpersAgree ==
    (smOp \in {"sampleVector", "randomSample"} /\ Len(smIn) > 0) =>
        smIdx = chooseRandom(smIn, smDraw)

\* the remainder never goes negative and sampleVector returns the first
\* index where chooseRandom returns the last
C29_Witness ==
    /\ smOp = "sampleVector"
    /\ Len(smIn) = VecSize
    /\ SumSeq(smIn) <= smDraw
    /\ ExpEntries(LogSoftmax(smIn)) = smIn
    /\ smIdx = 1
    /\ chooseRandom(smIn, smDraw) = VecSize

\* whenever the remainder goes negative the three helpers agree, and
\* randomSample agrees with chooseRandom in the fallback as well
C29_AgreeOutsideFallback ==
    /\ (smOp = "randomSample") => smIdx = chooseRandom(smIn, smDraw)
    /\ (smOp = "sampleVector" /\ SumSeq(smIn) > smDraw) =>
            smIdx = chooseRandom(smIn, smDraw)


\* ---------------------------------------------------------------------
\* FeedbackBlock.  A vector is a sequence of numbers.  A lane's state is
\*   Internal : the wrapped block's state (the number of steps it has seen)
\*   shared   : TRUE when Feedback is the slice InitFeedback.Vector itself
\*   own      : the Feedback vector when it is not shared
\*   produced : the value Feedback had when the state was produced
\* ---------------------------------------------------------------------

\* the values of the external inputs, of the wrapped block's outputs and of
\* the initial-feedback parameter (kept apart so that a value tells where
\* it came from)
ExtValues == {1, 2}
OutValues == {3, 4}
InitValues == {5, 6}

ExtVectors == [1..1 -> ExtValues]
OutVectors == [1..1 -> OutValues]
InitVectors == [1..1 -> InitValues]

\* the keys of a gradient map: the parameter InitFeedback, the wrapped
\* block's parameter, and the pool variable ApplyBlock made for lane i
KInit == <<"InitFeedback", 0>>
KInner == <<"inner", 0>>
PoolKey(i) == <<"pool", i>>

\* the parameters a caller asks gradients for
CallerKeySets == {{}, {KInner}, {KInit, KInner}}

\* a gradient map with a zero accumulator (of length 1) for every key
NewMap(K) == [k \in K |-> <<0>>]

\* the maps a caller passes: new ones, and one whose InitFeedback
\* accumulator already holds an earlier contribution
CallerMaps ==
    {NewMap(K) : K \in CallerKeySets}
       \cup {[NewMap({KInit, KInner}) EXCEPT ![KInit] = <<1>>]}

\* no backward call has been made in the run
NoBack == [op |-> "none"]

\* the value of a state's Feedback slice when it is read
FeedbackOf(st) == IF st.shared THEN InitFeedback ELSE st.own

\* FeedbackBlock.StartState: Feedback is f.InitFeedback.Vector
StartState ==
    [Internal |-> 0, shared |-> TRUE, own |-> <<>>, produced |-> InitFeedback]

\* the concatenation with the feedback first
JoinedInFeedbackFirst(in, fb) == fb \o in

\* autofunc.Concat(in[i], v)
JoinedIn(in, fb) == in \o fb

\* a sequence runner starts a batch of n lanes
StartRun ==
    /\ InitFeedback # <<>>
    /\ \E n \in 1..MaxLanes : fbStates' = [i \in 1..n |-> StartState]
    /\ fbTime' = 0
    /\ fbLast' = [called |-> FALSE]
    /\ fbGrad' \in CallerMaps
    /\ fbBack' = NoBack
    /\ UNCHANGED InitFeedback
    /\ UNCHANGED outsideFeedback

\* FeedbackBlock.ApplyBlock on the current states and the inputs in; out
\* is what the wrapped block returns
ApplyBlock(in, out) ==
    /\ fbStates # <<>>
    /\ fbTime < MaxTime
    /\ fbBack = NoBack
    /\ UNCHANGED <<fbGrad, fbBack>>
    /\ fbLast' = [called   |-> TRUE,
                  in       |-> in,
                  pool     |-> [i \in DOMAIN fbStates |-> FeedbackOf(fbStates[i])],
                  joined   |-> [i \in DOMAIN fbStates |->
                                    JoinedIn(in[i], FeedbackOf(fbStates[i]))],
                  internal |-> [i \in DOMAIN fbStates |-> fbStates[i].Internal],
                  out      |-> out]
    /\ fbStates' = [i \in DOMAIN fbStates |->
                       [Internal |-> fbTime + 1, shared |-> FALSE,
                        own |-> out[i], produced |-> out[i]]]
    /\ fbTime' = fbTime + 1
    /\ UNCHANGED InitFeedback
    /\ UNCHANGED outsideFeedback

ApplyBlockCall ==
    \E in \in [DOMAIN fbStates -> ExtVectors] :
    \E out \in [DOMAIN fbStates -> OutVectors] : ApplyBlock(in, out)

\* an optimizer step updates the parameter vector in place
OptimizerStep ==
    /\ InitFeedback # <<>>
    /\ \E v \in InitVectors : v # InitFeedback /\ InitFeedback' = v
    /\ UNCHANGED <<fbStates, fbTime, fbLast, fbGrad, fbBack>>
    /\ UNCHANGED outsideFeedback

FeedbackInit ==
    /\ InitFeedback \in InitVectors
    /\ fbStates = <<>>
    /\ fbTime = 0
    /\ fbLast = [called |-> FALSE]
    /\ fbGrad = <<>>
    /\ fbBack = [op |-> "none"]

InitFeedbackBlock == FeedbackInit /\ TrainerIdle /\ RewardIdle /\ SamplingIdle /\ AuxIdle

NextFeedback == StartRun \/ ApplyBlockCall \/ OptimizerStep

SpecFeedback == InitFeedbackBlock /\ [][NextFeedback]_vars

\* ---------------------------------------------------------------------
\* Properties of FeedbackBlock (checked under SpecFeedback)
\* ---------------------------------------------------------------------

\* C10: in every lane and at every timestep of a run the wrapped block
\* receives the external input followed by the feedback, the feedback being
\* the wrapped block's output of the previous timestep or, at the first
\* timestep, the current value of InitFeedback; and the state ApplyBlock
\* returns carries that lane's output of the step as its feedback.
C10_FeedbackConcat ==
    [][fbTime' = fbTime + 1 =>
          \A i \in DOMAIN fbStates :
             /\ fbLast'.joined[i] =
                   fbLast'.in[i] \o (IF fbTime = 0 THEN InitFeedback
                                                   ELSE fbLast.out[i])
             /\ fbLast'.internal[i] = fbTime
             /\ ~fbStates'[i].shared
             /\ fbStates'[i].own = fbLast'.out[i]]_vars

C10_Witness ==
    /\ fbTime = 2
    /\ Len(fbStates) = 2
    /\ fbLast.called
    /\ fbLast.joined = << <<1, 3>>, <<2, 4>> >>
    /\ fbLast.out = << <<4>>, <<4>> >>
    /\ FeedbackOf(fbStates[1]) = <<4>>


\* C11: a state returned by StartState or produced by ApplyBlock keeps the
\* feedback vector it had when it was produced, whatever ApplyBlock calls
\* and in-place updates of InitFeedback follow.
C11_StatesImmutable ==
    \A i \in DOMAIN fbStates : FeedbackOf(fbStates[i]) = fbStates[i].produced

\* a start state is held while the optimizer has updated InitFeedback in
\* place: the state's Feedback slice now reads the new value
C11_Witness ==
    /\ fbStates # <<>>
    /\ fbTime = 0
    /\ fbStates[1].shared
    /\ fbStates[1].produced = <<5>>
    /\ InitFeedback = <<6>>
    /\ FeedbackOf(fbStates[1]) = <<6>>


\* ---------------------------------------------------------------------
\* Back-propagation through a FeedbackBlock run.  The results of the run
\* are propagated from the last timestep to the first, each call handing
\* the state gradients it returns to the call for the timestep before;
\* fbBack.at is the timestep of the result last propagated.
\* ---------------------------------------------------------------------

\* the values of upstream gradients and of the gradients the wrapped block
\* accumulates on its fed-back input (kept apart so that a sum tells its
\* two terms)
UpValues == {0, 1}
FbValues == {0, 2}

UpVectors == [1..1 -> UpValues]
FbVectors == [1..1 -> FbValues]

\* a linalg.Vector that may be nil
NilVec == [nil |-> TRUE, v |-> <<>>]
Vec(v) == [nil |-> FALSE, v |-> v]

\* an rnn.StateGrad that may be nil; Internal is the wrapped block's state
\* gradient (named by the timestep it flows into)
NilGrad == [nil |-> TRUE, Internal |-> 0, Feedback |-> <<>>]
feedbackBlockGrad(internal, feedback) ==
    [nil |-> FALSE, Internal |-> internal, Feedback |-> feedback]

\* s[i], nil when the slice s is shorter
SAt(sg, i) == IF i \in DOMAIN sg THEN sg[i] ELSE NilGrad

\* for i, x := range u { internalUpstream[i] = x.Copy() }
AfterUpstream(u, i) == IF i \in DOMAIN u THEN Vec(u[i]) ELSE NilVec

\* the state gradient's feedback replacing what is there
AfterStateGradOverwriting(x, sg) ==
    IF sg.nil THEN x ELSE Vec(sg.Feedback)

\* internalUpstream[i].Add(stateGrad.Feedback), or a copy of
\* stateGrad.Feedback when internalUpstream[i] is nil
AfterStateGrad(x, sg) ==
    IF sg.nil THEN x
    ELSE IF ~x.nil THEN Vec(VecAdd(x.v, sg.Feedback))
    ELSE Vec(sg.Feedback)

\* a nil entry becomes a zero vector of the output's length
AfterZeroFill(x, out) ==
    IF x.nil THEN Vec([k \in DOMAIN out |-> 0]) ELSE x

\* the upstream handed to the wrapped block for lane i
InternalUpstream(u, sg, i, out) ==
    AfterZeroFill(AfterStateGrad(AfterUpstream(u, i), SAt(sg, i)), out).v

\* g[v] = make(linalg.Vector, len(v.Vector)) for every pool variable
WithPool(g, n) ==
    [k \in DOMAIN g \cup {PoolKey(i) : i \in 1..n} |->
        IF k \in {PoolKey(i) : i \in 1..n} THEN <<0>> ELSE g[k]]

\* the wrapped block's PropagateGradient: it accumulates c into its own
\* parameter and poolAcc[i] into lane i's fed-back input, when those are
\* keys of g
InnerPropagate(g, poolAcc, c) ==
    [k \in DOMAIN g |->
        IF k = KInner THEN VecAdd(g[k], c)
        ELSE IF k[1] = "pool" THEN VecAdd(g[k], poolAcc[k[2]])
        ELSE g[k]]

\* leaving the pool variables in the map
WithoutPoolKept(g, n) == g

\* delete(g, v) for every pool variable
WithoutPool(g, n) ==
    [k \in DOMAIN g \ {PoolKey(i) : i \in 1..n} |-> g[k]]

\* the timestep of the result the next PropagateGradient call is for
BackPos == IF fbBack.op = "none" THEN fbTime ELSE fbBack.at - 1

\* feedbackBlockResult.PropagateGradient(u, s, g) on the result of
\* timestep BackPos
ResultPropagateGradient(u, sg, poolAcc, c) ==
    LET n == Len(fbStates)
        up == [i \in 1..n |-> InternalUpstream(u, sg, i, fbLast.out[i])]
        isg == [i \in 1..n |-> IF SAt(sg, i).nil THEN 0 ELSE SAt(sg, i).Internal]
        g2 == InnerPropagate(WithPool(fbGrad, n), poolAcc, c)
    IN  /\ fbTime >= 1
        /\ fbBack.op \in {"none", "PropagateGradient"}
        /\ BackPos >= 1
        /\ fbGrad' = WithoutPool(g2, n)
        /\ fbBack' = [op |-> "PropagateGradient",
                      at |-> BackPos,
                      u |-> u,
                      s |-> sg,
                      internalUpstream |-> up,
                      internalStateGrad |-> isg,
                      pooled |-> poolAcc,
                      keysBefore |-> DOMAIN fbGrad,
                      downstream |-> [i \in 1..n |->
                          feedbackBlockGrad(BackPos - 1, g2[PoolKey(i)])]]
        /\ UNCHANGED <<InitFeedback, fbStates, fbTime, fbLast>>
        /\ UNCHANGED outsideFeedback

\* the state gradients of the first call of a backward pass: none, or per
\* lane nil or any; afterwards, what the call before returned
StateGradsIn ==
    IF fbBack.op = "none"
    THEN {<<>>} \cup
         [1..Len(fbStates) ->
             {NilGrad} \cup {feedbackBlockGrad(fbTime, f) : f \in FbVectors}]
    ELSE IF fbBack.op = "PropagateGradient" THEN {fbBack.downstream}
    ELSE {}

\* the upstream of a call: nil, or one vector per lane
UpstreamsIn == {<<>>} \cup [1..Len(fbStates) -> UpVectors]

ResultPropagateGradientCall ==
    \E u \in UpstreamsIn :
    \E sg \in StateGradsIn :
    \E poolAcc \in [1..Len(fbStates) -> FbVectors] :
    \E c \in UpVectors : ResultPropagateGradient(u, sg, poolAcc, c)

\* the wrapped blocks: not an sgd.Learner, or a learner with its parameters
InnerBlocks ==
    {[learner |-> FALSE, params |-> <<>>]}
       \cup {[learner |-> TRUE, params |-> ps] :
                 ps \in {<<>>, <<KInner>>, <<KInner, <<"inner", 1>>>>}}

\* func (f *FeedbackBlock) Parameters() []*autofunc.Variable
Parameters(inner) ==
    <<KInit>> \o (IF inner.learner THEN inner.params ELSE <<>>)

\* a call of Parameters before a run, e.g. for autofunc.NewGradient
ParametersCall ==
    /\ InitFeedback # <<>>
    /\ fbStates = <<>>
    /\ \E inner \in InnerBlocks :
          fbBack' = [op |-> "Parameters", inner |-> inner, res |-> Parameters(inner)]
    /\ UNCHANGED <<InitFeedback, fbStates, fbTime, fbLast, fbGrad>>
    /\ UNCHANGED outsideFeedback

\* a variant whose accumulator is replaced by the lane's gradient
RECURSIVE AddLanesOverwriting(_, _, _)
AddLanesOverwriting(g, u, i) ==
    IF i > Len(u) THEN g
    ELSE AddLanesOverwriting(IF KInit \in DOMAIN g
                             THEN [g EXCEPT ![KInit] = u[i].Feedback]
                             ELSE g, u, i + 1)

\* Variable.PropagateGradient(upstream, g) of InitFeedback, once per lane
RECURSIVE AddLanes(_, _, _)
AddLanes(g, u, i) ==
    IF i > Len(u) THEN g
    ELSE AddLanes(IF KInit \in DOMAIN g
                  THEN [g EXCEPT ![KInit] = VecAdd(g[KInit], u[i].Feedback)]
                  ELSE g, u, i + 1)

\* FeedbackBlock.PropagateStart(s, u, g) with the state gradients the call
\* for the first timestep returned; c is what the wrapped block's
\* PropagateStart accumulates into its parameter
PropagateStart(c) ==
    LET g1 == AddLanes(fbGrad, fbBack.downstream, 1)
    IN  /\ fbBack.op = "PropagateGradient"
        /\ fbBack.at = 1
        /\ fbGrad' = [k \in DOMAIN g1 |->
                         IF k = KInner THEN VecAdd(g1[k], c) ELSE g1[k]]
        /\ fbBack' = [op |-> "PropagateStart",
                      at |-> 0,
                      u |-> fbBack.downstream,
                      before |-> fbGrad,
                      afterLanes |-> g1,
                      internal |-> [i \in DOMAIN fbBack.downstream |->
                                       fbBack.downstream[i].Internal]]
        /\ UNCHANGED <<InitFeedback, fbStates, fbTime, fbLast>>
        /\ UNCHANGED outsideFeedback

PropagateStartCall == \E c \in UpVectors : PropagateStart(c)

\* a forward step of the run whose values the backward pass does not read
ApplyBlockOnce ==
    \E in \in [DOMAIN fbStates -> {<<1>>}] :
    \E out \in [DOMAIN fbStates -> {<<3>>}] : ApplyBlock(in, out)

NextBackward ==
    \/ StartRun
    \/ ApplyBlockOnce
    \/ ResultPropagateGradientCall
    \/ PropagateStartCall
    \/ ParametersCall

\* the backward pass does not read the value of InitFeedback
InitBackward == InitFeedbackBlock /\ InitFeedback = <<5>>

SpecBackward == InitBackward /\ [][NextBackward]_vars

\* ---------------------------------------------------------------------
\* Properties of the backward pass (checked under SpecBackward)
\* ---------------------------------------------------------------------

\* lane i's upstream and incoming feedback gradient, zero when missing
UpOrZero(i) == IF i \in DOMAIN fbBack.u THEN fbBack.u[i] ELSE <<0>>

FeedbackGradOrZero(i) ==
    IF i \in DOMAIN fbBack.s /\ ~fbBack.s[i].nil
    THEN fbBack.s[i].Feedback ELSE <<0>>

\* C12: in feedbackBlockResult.PropagateGradient the gradient handed to the
\* wrapped block for a lane's output is the sum of the lane's upstream and
\* the feedback gradient of the state gradient from the next timestep,
\* either counting as zero when missing; the feedback gradient returned
\* downstream is what the wrapped block accumulated on the lane's fed-back
\* input.
C12_FeedbackGradientSum ==
    fbBack.op = "PropagateGradient" =>
        /\ Len(fbBack.internalUpstream) = Len(fbStates)
        /\ Len(fbBack.downstream) = Len(fbStates)
        /\ \A i \in 1..Len(fbStates) :
              /\ fbBack.internalUpstream[i] =
                     VecAdd(UpOrZero(i), FeedbackGradOrZero(i))
              /\ fbBack.internalStateGrad[i] =
                     (IF i \in DOMAIN fbBack.s /\ ~fbBack.s[i].nil
                      THEN fbBack.s[i].Internal ELSE 0)
              /\ ~fbBack.downstream[i].nil
              /\ fbBack.downstream[i].Feedback = fbBack.pooled[i]

\* the call for the first of two timesteps: lane 1 has upstream 1 and
\* feedback gradient 2 from the second timestep, lane 2 only the latter
C12_Witness ==
    /\ fbBack.op = "PropagateGradient"
    /\ fbTime = 2
    /\ fbBack.at = 1
    /\ Len(fbStates) = 2
    /\ fbBack.u = << <<1>>, <<0>> >>
    /\ fbBack.s[1].Feedback = <<2>>
    /\ fbBack.s[2].Feedback = <<2>>
    /\ fbBack.internalUpstream = << <<3>>, <<2>> >>
    /\ fbBack.downstream[1].Feedback = <<2>>
    /\ fbBack.downstream[2].Feedback = <<0>>


\* ---------------------------------------------------------------------
\* The trainers with the external optimizer between their Gradient calls
\* ---------------------------------------------------------------------

\* a gradient step of the optimizer on the map the last call returned:
\* every parameter in the map moves against its accumulator, in place
OptimizerUpdate ==
    /\ kind \in {"policy"} \cup VariantKinds
    /\ last.status = "ok"
    /\ optSteps < MaxUpdates
    /\ paramVals' = [p \in DOMAIN paramVals |->
                        IF p \in DOMAIN last.grad
                        THEN [i \in DOMAIN paramVals[p] |->
                                 paramVals[p][i] - last.grad[p][i]]
                        ELSE paramVals[p]]
    /\ optSteps' = optSteps + 1
    /\ UNCHANGED <<kind, origin, GenIterations, DiscIterations, RandomSize,
                   DiscountFactor, iterIdx, genParams, discParams, history, last,
                   blob, GenTrans, DiscTrans>>
    /\ UNCHANGED outsideTrainer

\* any of the four trainers with separate networks, the policy-gradient
\* one configured 1:1 as the demo does
TrainingInit ==
    /\ kind \in {"policy"} \cup VariantKinds
    /\ origin = "literal"
    /\ GenIterations = (IF kind = "policy" THEN 1 ELSE 0)
    /\ DiscIterations = (IF kind = "policy" THEN 1 ELSE 0)
    /\ RandomSize = 1
    /\ DiscountFactor = <<0, 1>>
    /\ iterIdx = 0
    /\ \E pc \in ParamConfigs :
          /\ pc.gen \cap pc.disc = {}
          /\ genParams = pc.gen
          /\ discParams = pc.disc
    /\ history = <<>>
    /\ last = NoCall
    /\ blob = NoBlob
    /\ paramVals = [p \in genParams \cup discParams |-> ZeroVec]
    /\ optSteps = 0
    /\ NoTransformers

InitTraining == TrainingInit /\ RewardIdle /\ SamplingIdle /\ FeedbackIdle /\ AuxIdle

NextTraining == GradientCall \/ VariantGradientCall \/ OptimizerUpdate

SpecTraining == InitTraining /\ [][NextTraining]_vars

\* C13: no Gradient call of any trainer changes the value of a generator
\* or discriminator parameter; the values change only in the optimizer's
\* updates between calls.
C13_GradientKeepsParameters ==
    [][optSteps' = optSteps => paramVals' = paramVals]_vars

\* the optimizer has moved the discriminator's parameter after the first
\* call, and two more calls, one per phase, have returned since
C13_Witness ==
    /\ kind = "policy"
    /\ optSteps = 1
    /\ Len(history) = 3
    /\ last.status = "ok"
    /\ last.branch = "disc"
    /\ last.grad["d"] = Fill(1)
    /\ paramVals["d"] = Fill(1)
    /\ paramVals["g"] = ZeroVec

\* C19: a Gradient call on a batch holding a sample of the wrong type, at
\* any position, ends in a panic: no gradient map is returned and no
\* parameter or accumulator has been written.
C19_WrongSampleAborts ==
    [][\A batch \in Batches :
          ((\E i \in DOMAIN batch : batch[i] # SampleTypeOf(kind))
              /\ (Gradient(batch) \/ VariantGradient(batch))) =>
             /\ last'.status \in {"panic_type", "panic_divide"}
             /\ last'.grad = <<>>
             /\ last'.sub = NoSub
             /\ paramVals' = paramVals]_vars

\* FM was given a batch whose second sample is not a VectorSample, after
\* a call that returned
C19_Witness ==
    /\ kind = "fm"
    /\ last.status = "panic_type"
    /\ last.at = 2
    /\ last.grad = <<>>
    /\ optSteps > 0

\* ---------------------------------------------------------------------
\* Properties of the returned gradient map (checked under Spec)
\* ---------------------------------------------------------------------

\* what a sub-gradient holds for a parameter, zero when it is not a key
SubOrZero(g, p) == IF p \in DOMAIN g THEN g[p] ELSE ZeroVec

\* C14: every key of the map Gradient returns has an accumulator of the
\* length of the parameter's vector, and the accumulator is the sum of
\* what the generator's and the discriminator's sub-gradients hold for the
\* key, also for a parameter that is a key of both.
C14_MergeAdditive ==
    last.status = "ok" =>
        \A p \in DOMAIN last.grad :
            /\ Len(last.grad[p]) = Len(paramVals[p])
            /\ last.grad[p] =
                  VecAdd(SubOrZero(last.sub.gen, p), SubOrZero(last.sub.disc, p))

\* a generator-phase call on networks sharing the parameter "s": the
\* generator's sub-gradient holds a nonzero accumulator for it, the
\* returned map the discriminator's zero one
C14_Witness ==
    /\ kind = "policy"
    /\ last.status = "ok"
    /\ last.branch = "gen"
    /\ "s" \in genParams \cap discParams
    /\ last.sub.gen["s"] = Fill(1)
    /\ last.sub.disc["s"] = ZeroVec
    /\ last.grad["s"] = ZeroVec


\* C16: DeserializeRecurrent applied to the output of Serialize returns a
\* trainer with the RandomSize, DiscountFactor, GenIterations and
\* DiscIterations of the trainer that was serialized.
C16_RoundTripScalars ==
    [][(blob = Serialize /\ DeserializeRecurrent) =>
          /\ RandomSize' = RandomSize
          /\ DiscountFactor' = DiscountFactor
          /\ GenIterations' = GenIterations
          /\ DiscIterations' = DiscIterations]_vars

\* a trainer came back from its bytes with its RandomSize and
\* DiscountFactor but no schedule, and its first Gradient call divided by
\* zero
C16_Witness ==
    /\ origin = "deserialized"
    /\ blob.present
    /\ RandomSize = blob.RandomSize
    /\ DiscountFactor = blob.DiscountFactor
    /\ GenIterations = 0
    /\ DiscIterations = 0
    /\ last.status = "panic_divide"

\* ---------------------------------------------------------------------
\* Serialize of the length-terminating trainer, of the
\* sequence-classification trainer and of FeedbackBlock.  A part of the
\* object is "Serializer" (implements serializer.Serializer and its own
\* Serialize succeeds), "failing" (implements it, its own Serialize
\* returns an error), "plain" (does not implement it) or, for
\* GenActivation only, "nil".
\* ---------------------------------------------------------------------

SerTypes == {"lenterm", "seqclass", "FeedbackBlock"}

\* the parts of each type, in the order Serialize asserts them
SerParts(t) ==
    CASE t = "lenterm"       -> <<"Discriminator", "Generator", "GenActivation">>
      [] t = "seqclass"      -> <<"DiscrimFeatures", "DiscrimClassify", "Generator">>
      [] t = "FeedbackBlock" -> <<"B">>

\* the Go interface a part is declared with
PartType(t, p) ==
    CASE p = "GenActivation"                    -> "Func"
      [] p = "B"                                -> "Block"
      [] t = "lenterm" /\ p = "Generator"       -> "Block"
      [] OTHER                                  -> "SeqFunc"

CapsOf(p) ==
    IF p = "GenActivation" THEN {"Serializer", "failing", "plain", "nil"}
                           ELSE {"Serializer", "failing", "plain"}

Range(f) == {f[x] : x \in DOMAIN f}

\* the objects Serialize is called on; jsonOK says whether
\* json.Marshal(f.InitFeedback) succeeds (it fails on NaN and Inf entries)
SerObjects ==
    UNION {
       {[type |-> t, parts |-> ps, jsonOK |-> j, RandomSize |-> n, MaxLen |-> m] :
            ps \in {f \in [Range(SerParts(t)) -> {"Serializer", "failing", "plain", "nil"}] :
                       \A p \in DOMAIN f : f[p] \in CapsOf(p)},
            j \in (IF t = "FeedbackBlock" THEN BOOLEAN ELSE {TRUE}),
            n \in 1..MaxRandomSize,
            m \in (IF t = "lenterm" THEN 1..MaxSteps ELSE {0})} :
       t \in SerTypes}

NoData == <<>>
NoError == [kind |-> "nil", part |-> "none"]
NotASerializer(p) == [kind |-> "is not a Serializer", part |-> p]
EncodeError(p) == [kind |-> "encode", part |-> p]

\* a serializer handed to SerializeSlice: the object's part, or a scalar
PartSerializer(o, p) == [type |-> PartType(o.type, p), val |-> 0, ok |-> o.parts[p] # "failing"]
IntSerializer(n) == [type |-> "Int", val |-> n, ok |-> TRUE]
BytesSerializer == [type |-> "Bytes", val |-> 0, ok |-> TRUE]

\* serializer.SerializeSlice: the elements, or the error of the first
\* element whose own Serialize fails
SerializeSlice(serializers) ==
    IF \E i \in DOMAIN serializers : ~serializers[i].ok
    THEN [err |-> EncodeError("element"), data |-> NoData]
    ELSE [err |-> NoError,
          data |-> [i \in DOMAIN serializers |->
                       [type |-> serializers[i].type, val |-> serializers[i].val]]]

\* the length-terminating trainer's Serialize without the GenActivation
\* assertion
SerializeLentermTrusting(o) ==
    IF o.parts["Discriminator"] = "plain"
    THEN [err |-> NotASerializer("Discriminator"), data |-> NoData]
    ELSE IF o.parts["Generator"] = "plain"
    THEN [err |-> NotASerializer("Generator"), data |-> NoData]
    ELSE LET base == <<PartSerializer(o, "Discriminator"), PartSerializer(o, "Generator"),
                       IntSerializer(o.RandomSize), IntSerializer(o.MaxLen)>>
         IN  IF o.parts["GenActivation"] = "nil"
             THEN SerializeSlice(base)
             ELSE SerializeSlice(Append(base, [PartSerializer(o, "GenActivation")
                                                 EXCEPT !.ok = TRUE]))

\* func (r *Recurrent) Serialize() ([]byte, error), length-terminating
SerializeLenterm(o) ==
    IF o.parts["Discriminator"] = "plain"
    THEN [err |-> NotASerializer("Discriminator"), data |-> NoData]
    ELSE IF o.parts["Generator"] = "plain"
    THEN [err |-> NotASerializer("Generator"), data |-> NoData]
    ELSE LET base == <<PartSerializer(o, "Discriminator"), PartSerializer(o, "Generator"),
                       IntSerializer(o.RandomSize), IntSerializer(o.MaxLen)>>
         IN  IF o.parts["GenActivation"] = "nil"
             THEN SerializeSlice(base)
             ELSE IF o.parts["GenActivation"] = "plain"
             THEN [err |-> NotASerializer("GenActivation"), data |-> NoData]
             ELSE SerializeSlice(Append(base, PartSerializer(o, "GenActivation")))

\* func (r *Recurrent) Serialize() ([]byte, error), sequence-classification
SerializeSeqclass(o) ==
    IF o.parts["DiscrimFeatures"] = "plain"
    THEN [err |-> NotASerializer("DiscrimFeatures"), data |-> NoData]
    ELSE IF o.parts["DiscrimClassify"] = "plain"
    THEN [err |-> NotASerializer("DiscrimClassify"), data |-> NoData]
    ELSE IF o.parts["Generator"] = "plain"
    THEN [err |-> NotASerializer("Generator"), data |-> NoData]
    ELSE SerializeSlice(<<PartSerializer(o, "DiscrimFeatures"),
                          PartSerializer(o, "DiscrimClassify"),
                          PartSerializer(o, "Generator"),
                          IntSerializer(o.RandomSize)>>)

\* func (f *FeedbackBlock) Serialize() ([]byte, error)
SerializeFeedbackBlock(o) ==
    IF o.parts["B"] = "plain"
    THEN [err |-> NotASerializer("B"), data |-> NoData]
    ELSE IF ~o.jsonOK
    THEN [err |-> EncodeError("InitFeedback"), data |-> NoData]
    ELSE SerializeSlice(<<PartSerializer(o, "B"), BytesSerializer>>)

SerializeOf(o) ==
    CASE o.type = "lenterm"       -> SerializeLenterm(o)
      [] o.type = "seqclass"      -> SerializeSeqclass(o)
      [] o.type = "FeedbackBlock" -> SerializeFeedbackBlock(o)

\* one call of Serialize on an object of type t; the receiver is only read
SerializeObject(t) ==
    /\ serObj.type = t
    /\ serOut' = [called |-> TRUE, err |-> SerializeOf(serObj).err,
                  data |-> SerializeOf(serObj).data]
    /\ UNCHANGED <<serObj, dsVars, expVars, scVars>>
    /\ UNCHANGED outsideAux

\* the caller plugs another component into a part of the object
ReplacePart ==
    /\ serObj.type \in SerTypes
    /\ \E p \in DOMAIN serObj.parts :
          \E c \in CapsOf(p) : serObj' = [serObj EXCEPT !.parts[p] = c]
    /\ UNCHANGED <<serOut, dsVars, expVars, scVars>>
    /\ UNCHANGED outsideAux

SerializeInit ==
    /\ serObj \in SerObjects
    /\ serOut = [called |-> FALSE]

InitSerialize ==
    /\ SerializeInit /\ DeserializeIdle /\ ExpIdle /\ SeqCostIdle
    /\ TrainerIdle /\ RewardIdle /\ SamplingIdle /\ FeedbackIdle /\ NoiseIdle

NextSerialize ==
    \/ SerializeObject("lenterm")
    \/ SerializeObject("seqclass")
    \/ SerializeObject("FeedbackBlock")
    \/ ReplacePart

SpecSerialize == InitSerialize /\ [][NextSerialize]_vars

\* the parts Serialize requires to be Serializers
LacksCapability(o) == \E p \in DOMAIN o.parts : o.parts[p] = "plain"

\* every part present encodes itself, and so does InitFeedback
AllEncode(o) == o.jsonOK /\ \A p \in DOMAIN o.parts : o.parts[p] # "failing"

\* the original reading of C17: an error and no data when a required part
\* lacks the capability, data and a nil error in every other case
C17_DataUnlessCapabilityMissing ==
    [][serOut' # serOut =>
          /\ serObj' = serObj
          /\ IF LacksCapability(serObj)
             THEN serOut'.err # NoError /\ serOut'.data = NoData
             ELSE serOut'.err = NoError /\ serOut'.data # NoData]_vars

\* C17: Serialize returns a non-nil error and no data when a required part
\* lacks the Serializer capability; when none does, it returns data and a
\* nil error provided every part's own Serialize and the JSON encoding of
\* InitFeedback succeed, and that failure's error and no data otherwise;
\* the call leaves the object's fields unchanged.
C17_SerializeCapability ==
    [][serOut' # serOut =>
          /\ serObj' = serObj
          /\ LacksCapability(serObj) =>
                /\ serOut'.err.kind = "is not a Serializer"
                /\ serOut'.data = NoData
          /\ (~LacksCapability(serObj) /\ AllEncode(serObj)) =>
                /\ serOut'.err = NoError
                /\ serOut'.data # NoData
          /\ (~LacksCapability(serObj) /\ ~AllEncode(serObj)) =>
                /\ serOut'.err.kind = "encode"
                /\ serOut'.data = NoData]_vars

\* a length-terminating trainer whose GenActivation alone is not a
\* Serializer was refused
C17_Witness ==
    /\ serObj.type = "lenterm"
    /\ serObj.parts["Discriminator"] = "Serializer"
    /\ serObj.parts["Generator"] = "Serializer"
    /\ serObj.parts["GenActivation"] = "plain"
    /\ serOut.called
    /\ serOut.err = NotASerializer("GenActivation")
    /\ serOut.data = NoData

\* ---------------------------------------------------------------------
\* The deserializers.  The bytes are empty, or not a serialized slice
\* ("garbage": serializer.DeserializeSlice returns an error), or a
\* serialized slice of typed elements.  json describes the content of a
\* Bytes element: the JSON of a Variable ("vector"), another JSON object
\* such as {} ("object"), or no JSON at all ("invalid").
\* ---------------------------------------------------------------------

ElemTypes == {"SeqFunc", "Block", "Int", "Func", "Bytes", "Network"}

Deserializers == {"DeserializeRecurrent", "DeserializeSeqclass", "DeserializeFM",
                  "DeserializeFeedbackBlock", "DeserializeOneHotLayer"}

\* the number of elements the matching Serialize writes at most
FullCount(D) ==
    CASE D = "DeserializeRecurrent"     -> 5
      [] D = "DeserializeSeqclass"      -> 4
      [] D = "DeserializeFM"            -> 4
      [] D = "DeserializeFeedbackBlock" -> 2
      [] D = "DeserializeOneHotLayer"   -> 0

JSONForms == {"vector", "object", "invalid"}

\* the inputs tried on deserializer D: up to ExtraElems elements too many
InputsOf(D) ==
    {[form |-> f, elems |-> <<>>, vals |-> <<>>, json |-> "vector"] :
        f \in {"empty", "garbage"}}
    \cup {[form |-> "slice", elems |-> e,
           vals |-> [i \in DOMAIN e |-> IF e[i] = "Int" THEN 1 ELSE 0], json |-> j] :
             e \in SeqsUpTo(ElemTypes, 0, FullCount(D) + ExtraElems),
             j \in (IF D = "DeserializeFeedbackBlock" THEN JSONForms ELSE {"vector"})}

NoObject == [type |-> "nil"]
Failed(msg) == [err |-> msg, obj |-> NoObject]
Returned(o) == [err |-> "nil", obj |-> o]

\* serializer.DeserializeSlice(d)
DeserializeSlice(d) ==
    IF d.form = "slice" THEN [err |-> "nil", slice |-> d.elems]
                        ELSE [err |-> "bad slice", slice |-> <<>>]

\* a variant that reads the four mandatory elements only
DeserializeLentermFourOnly(d) ==
    LET r == DeserializeSlice(d)
        slice == r.slice
    IN  IF r.err # "nil" THEN Failed(r.err)
        ELSE IF Len(slice) # 4 THEN Failed("invalid Recurrent slice")
        ELSE IF ~(slice[1] = "SeqFunc" /\ slice[2] = "Block"
                  /\ slice[3] = "Int" /\ slice[4] = "Int")
        THEN Failed("invalid Recurrent slice")
        ELSE Returned([type |-> "Recurrent", GenActivation |-> FALSE,
                       RandomSize |-> d.vals[3], MaxLen |-> d.vals[4]])

\* func DeserializeRecurrent(d []byte) (*Recurrent, error), length-terminating
DeserializeLenterm(d) ==
    LET r == DeserializeSlice(d)
        slice == r.slice
    IN  IF r.err # "nil" THEN Failed(r.err)
        ELSE IF Len(slice) # 4 /\ Len(slice) # 5 THEN Failed("invalid Recurrent slice")
        ELSE IF ~(slice[1] = "SeqFunc" /\ slice[2] = "Block"
                  /\ slice[3] = "Int" /\ slice[4] = "Int")
        THEN Failed("invalid Recurrent slice")
        ELSE IF Len(slice) = 5 /\ slice[5] # "Func"
        THEN Failed("invalid Recurrent slice")
        ELSE Returned([type |-> "Recurrent", GenActivation |-> Len(slice) = 5,
                       RandomSize |-> d.vals[3], MaxLen |-> d.vals[4]])

\* func DeserializeRecurrent(d []byte) (*Recurrent, error), sequence-classification
DeserializeSeqclass(d) ==
    LET r == DeserializeSlice(d)
        slice == r.slice
    IN  IF r.err # "nil" THEN Failed(r.err)
        ELSE IF Len(slice) # 4 THEN Failed("invalid Recurrent slice")
        ELSE IF ~(slice[1] = "SeqFunc" /\ slice[2] = "SeqFunc"
                  /\ slice[3] = "SeqFunc" /\ slice[4] = "Int")
        THEN Failed("invalid Recurrent slice")
        ELSE Returned([type |-> "Recurrent", GenActivation |-> FALSE])

\* func DeserializeFM(d []byte) (*FM, error)
DeserializeFM(d) ==
    LET r == DeserializeSlice(d)
        slice == r.slice
    IN  IF r.err # "nil" THEN Failed(r.err)
        ELSE IF Len(slice) # 4 THEN Failed("invalid FM slice")
        ELSE IF ~(slice[1] = "Network" /\ slice[2] = "Network"
                  /\ slice[3] = "Int" /\ slice[4] = "Int")
        THEN Failed("invalid FM slice")
        ELSE Returned([type |-> "FM", GenActivation |-> FALSE])

\* func DeserializeFeedbackBlock(d []byte) (*FeedbackBlock, error)
DeserializeFeedbackBlock(d) ==
    LET r == DeserializeSlice(d)
        slice == r.slice
    IN  IF r.err # "nil" THEN Failed(r.err)
        ELSE IF Len(slice) # 2 THEN Failed("bad FeedbackBlock slice")
        ELSE IF ~(slice[1] = "Block" /\ slice[2] = "Bytes")
        THEN Failed("bad FeedbackBlock slice")
        ELSE IF d.json = "invalid" THEN Failed("json")
        ELSE Returned([type |-> "FeedbackBlock", GenActivation |-> FALSE])

\* func DeserializeOneHotLayer(d []byte) (OneHotLayer, error)
DeserializeOneHotLayer(d) == Returned([type |-> "OneHotLayer", GenActivation |-> FALSE])

DeserializeBy(D, d) ==
    CASE D = "DeserializeRecurrent"     -> DeserializeLenterm(d)
      [] D = "DeserializeSeqclass"      -> DeserializeSeqclass(d)
      [] D = "DeserializeFM"            -> DeserializeFM(d)
      [] D = "DeserializeFeedbackBlock" -> DeserializeFeedbackBlock(d)
      [] D = "DeserializeOneHotLayer"   -> DeserializeOneHotLayer(d)

\* the call of deserializer D on the bytes dsIn
Deserialize(D) ==
    /\ dsOut.by = D
    /\ ~dsOut.called
    /\ dsOut' = [called |-> TRUE, by |-> D, err |-> DeserializeBy(D, dsIn).err,
                 obj |-> DeserializeBy(D, dsIn).obj]
    /\ UNCHANGED <<dsIn, serVars, expVars, scVars>>
    /\ UNCHANGED outsideAux

\* a deserializer and the bytes it is about to be given
DeserializeInit ==
    \E D \in Deserializers :
        /\ dsIn \in InputsOf(D)
        /\ dsOut = [called |-> FALSE, by |-> D, err |-> "nil", obj |-> NoObject]

InitDeserialize ==
    /\ DeserializeInit /\ SerializeIdle /\ ExpIdle /\ SeqCostIdle
    /\ TrainerIdle /\ RewardIdle /\ SamplingIdle /\ FeedbackIdle /\ NoiseIdle

NextDeserialize == \E D \in Deserializers : Deserialize(D)

SpecDeserialize == InitDeserialize /\ [][NextDeserialize]_vars

\* the bytes the Serialize matching D can return
ProducedFor(D, d) ==
    CASE D = "DeserializeRecurrent" ->
             /\ d.form = "slice"
             /\ d.elems \in {<<"SeqFunc", "Block", "Int", "Int">>,
                              <<"SeqFunc", "Block", "Int", "Int", "Func">>}
      [] D = "DeserializeSeqclass" ->
             d.form = "slice" /\ d.elems = <<"SeqFunc", "SeqFunc", "SeqFunc", "Int">>
      [] D = "DeserializeFM" ->
             d.form = "slice" /\ d.elems = <<"Network", "Network", "Int", "Int">>
      [] D = "DeserializeFeedbackBlock" ->
             d.form = "slice" /\ d.elems = <<"Block", "Bytes">> /\ d.json = "vector"
      [] D = "DeserializeOneHotLayer" -> d.form = "empty"

\* C18: every deserializer returns a non-nil error and no object when the
\* bytes are not bytes its Serialize can produce (wrong element count,
\* wrong type at some position, or not a serialized slice at all).
C18_MalformedRejected ==
    dsOut.called =>
        (~ProducedFor(dsOut.by, dsIn) => (dsOut.err # "nil" /\ dsOut.obj = NoObject))

\* DeserializeOneHotLayer returned a layer and a nil error for bytes that
\* are not a serialized object at all
C18_Witness ==
    /\ dsOut.called
    /\ dsOut.by = "DeserializeOneHotLayer"
    /\ dsIn.form = "garbage"
    /\ dsOut.err = "nil"
    /\ dsOut.obj.type = "OneHotLayer"

\* ---------------------------------------------------------------------
\* The noise batch of the sequence trainers: generatorSeed of the
\* policy-gradient trainer, generatorInputs of the sequence-classification
\* trainer, the first loop of genGradients of the length-terminating one.
\* A batch is described by the length of each of its vectors.
\* ---------------------------------------------------------------------

SequenceTrainers == {"policy", "seqclass", "lenterm"}

\* the real batches: the length of each sample's Inputs
RealBatches == SeqsUpTo(0..MaxSteps, 1, MaxBatch)

\* the noise sequences all MaxLen long
NoiseOfMaxLen(k, lens) ==
    [i \in 1..Len(lens) |-> [j \in 1..MaxLen |-> RandomSize]]

\* one noise vector of RandomSize entries per input of each real sample;
\* in the length-terminating trainer, count sequences of MaxLen vectors
NoiseFor(k, lens) ==
    IF k = "lenterm"
    THEN [i \in 1..Len(lens) |-> [j \in 1..MaxLen |-> RandomSize]]
    ELSE [i \in 1..Len(lens) |-> [j \in 1..lens[i] |-> RandomSize]]

\* the number of entries of a noise batch, each one call of NormFloat64
RECURSIVE Entries(_)
Entries(noise) ==
    IF noise = <<>> THEN 0 ELSE SumSeq(Head(noise)) + Entries(Tail(noise))

\* a Gradient call builds its noise for the real batch lens
generatorSeed(lens) ==
    /\ kind \in SequenceTrainers
    /\ nzCalls < MaxNoiseCalls
    /\ nzLens' = lens
    /\ nzNoise' = NoiseFor(kind, lens)
    /\ nzDraws' = Entries(NoiseFor(kind, lens))
    /\ nzCalls' = nzCalls + 1
    /\ UNCHANGED <<MaxLen, trainerVars>>
    /\ UNCHANGED outsideNoise

generatorSeedCall == \E lens \in RealBatches : generatorSeed(lens)

NoiseInit ==
    /\ MaxLen \in 1..MaxSteps
    /\ nzLens = <<>>
    /\ nzNoise = <<>>
    /\ nzDraws = 0
    /\ nzCalls = 0

\* a sequence trainer with any RandomSize
NoiseTrainerInit ==
    /\ kind \in SequenceTrainers
    /\ origin = "literal"
    /\ GenIterations = (IF kind = "policy" THEN 1 ELSE 0)
    /\ DiscIterations = (IF kind = "policy" THEN 1 ELSE 0)
    /\ RandomSize \in 1..MaxRandomSize
    /\ DiscountFactor = <<0, 1>>
    /\ iterIdx = 0
    /\ genParams = {"g"}
    /\ discParams = {"d"}
    /\ history = <<>>
    /\ last = NoCall
    /\ blob = NoBlob
    /\ paramVals = [p \in genParams \cup discParams |-> ZeroVec]
    /\ optSteps = 0
    /\ NoTransformers

InitNoise ==
    /\ NoiseInit /\ NoiseTrainerInit
    /\ RewardIdle /\ SamplingIdle /\ FeedbackIdle /\ RestIdle

NextNoise == generatorSeedCall

SpecNoise == InitNoise /\ [][NextNoise]_vars

\* the noise batch has a sequence per real sample, each vector RandomSize
\* long
NoiseCountAndSize ==
    /\ Len(nzNoise) = Len(nzLens)
    /\ \A i \in 1..Len(nzNoise) :
          \A j \in 1..Len(nzNoise[i]) : nzNoise[i][j] = RandomSize

\* the original reading of C15: in every sequence trainer the i-th noise
\* sequence is as long as the i-th real sample's input sequence
C15_NoiseMatchesRealLengths ==
    nzCalls > 0 =>
        /\ NoiseCountAndSize
        /\ \A i \in 1..Len(nzLens) : Len(nzNoise[i]) = nzLens[i]

\* C15: the noise batch has one sequence per real sample and every noise
\* vector has RandomSize entries; the i-th noise sequence is as long as the
\* i-th real sample's input sequence in the policy-gradient and the
\* sequence-classification trainers, and MaxLen long in the
\* length-terminating trainer; every call draws each entry of its batch.
C15_NoiseShape ==
    nzCalls > 0 =>
        /\ NoiseCountAndSize
        /\ \A i \in 1..Len(nzLens) :
              Len(nzNoise[i]) = (IF kind = "lenterm" THEN MaxLen ELSE nzLens[i])
        /\ nzDraws = RandomSize * (IF kind = "lenterm"
                                      THEN Len(nzLens) * MaxLen
                                      ELSE SumSeq(nzLens))

C15_Witness ==
    /\ kind = "lenterm"
    /\ nzCalls = 2
    /\ MaxLen = 3
    /\ nzLens = <<1, 2>>
    /\ Len(nzNoise[1]) = 3
    /\ Len(nzNoise[2]) = 3
    /\ nzDraws = 6 * RandomSize

\* ---------------------------------------------------------------------
\* The demo's ExpBlock (src/demo/text_gen/exp_block.go).  Real numbers are
\* kept in units of 1/Hundred, truncated toward zero after every
\* multiplication; tanh is its Pade approximant x(15 + x^2)/(15 + 6x^2),
\* which is within 0.001 of tanh for |x| <= 1.
\* ---------------------------------------------------------------------

Hundred == 100

\* expBlockIdentityScale = 0.8
expBlockIdentityScale == 80

\* the size of the block's state and of its external input
StateSize == 2
InSize == 2
\* the number of timesteps followed
ExpSteps == 3

\* integer division truncating toward zero
Trunc(n, d) == IF n >= 0 THEN n \div d ELSE -((-n) \div d)

MulFix(a, b) == Trunc(a * b, Hundred)

RECURSIVE Pow(_, _)
Pow(b, n) == IF n = 0 THEN 1 ELSE b * Pow(b, n - 1)

\* an activation that returns its argument
Identity(x) == x

\* neuralnet.HyperbolicTangent{}
HyperbolicTangent(x) ==
    Trunc(x * (15 * Hundred * Hundred + x * x), 15 * Hundred * Hundred + 6 * x * x)

\* bf.StateTrans.Weights after NewExpBlock: expBlockIdentityScale at
\* Vector[i+stateSize*i], zero elsewhere
IdentityWeights ==
    [i \in 1..StateSize |->
        [j \in 1..StateSize |-> IF i = j THEN expBlockIdentityScale ELSE 0]]

\* weights after training: an off-diagonal entry has moved
TrainedWeights ==
    [i \in 1..StateSize |->
        [j \in 1..StateSize |-> IF i = j THEN expBlockIdentityScale ELSE 10]]

ZeroState == [k \in 1..StateSize |-> 0]

\* the embeddings: all zero, or every entry 0.1
ZeroEmbeddings == [i \in 1..InSize |-> ZeroState]
SomeEmbeddings == [i \in 1..InSize |-> [k \in 1..StateSize |-> 10]]

\* the external inputs: the one-hot vectors and the uniform distribution
\* (to the resolution)
ExpInputs ==
    {[i \in 1..InSize |-> IF i = h THEN Hundred ELSE 0] : h \in 1..InSize}
    \cup {[i \in 1..InSize |-> Hundred \div InSize]}

ExpStateValues == {-100, -50, 0, 50, 100}

\* e.StateTrans.Apply(state): Weights * state + Biases
StateTrans(W, b, state) ==
    [i \in 1..StateSize |->
        SumSeq([j \in 1..StateSize |-> MulFix(W[i][j], state[j])]) + b[i]]

\* func (e *expBlockFunc) Apply(in autofunc.Result) autofunc.Result, on the
\* joined vector (in, state): the sum over the input entries i of
\* in[i] * tanh(newState + InputWeights[i])
expBlockFuncApply(W, b, emb, in, state) ==
    LET newState == StateTrans(W, b, state)
    IN  [k \in 1..StateSize |->
            SumSeq([i \in 1..InSize |->
                       MulFix(in[i], HyperbolicTangent(newState[k] + emb[i][k]))])]

\* one timestep of the block on the constant input
ExpStep ==
    /\ expN < ExpSteps
    /\ expState' = expBlockFuncApply(expW, expBias, expEmb, expIn, expState)
    /\ expN' = expN + 1
    /\ UNCHANGED <<expW, expBias, expEmb, expIn, expInit>>
    /\ UNCHANGED <<serVars, dsVars, scVars>>
    /\ UNCHANGED outsideAux

ExpInit ==
    /\ expW \in {IdentityWeights, TrainedWeights}
    /\ expBias = ZeroState
    /\ expEmb \in {ZeroEmbeddings, SomeEmbeddings}
    /\ expIn \in ExpInputs
    /\ expInit \in [1..StateSize -> ExpStateValues]
    /\ expState = expInit
    /\ expN = 0

InitExp ==
    /\ ExpInit /\ SerializeIdle /\ DeserializeIdle /\ SeqCostIdle
    /\ TrainerIdle /\ RewardIdle /\ SamplingIdle /\ FeedbackIdle /\ NoiseIdle

NextExp == ExpStep

SpecExp == InitExp /\ [][NextExp]_vars

\* the values rand.NormFloat64() * expWeightInit takes in the model
WeightDraws == {-1, 0, 1}

\* the first row only: expBlockIdentityScale at Vector[i]
IdentityVectorFirstRow(stateSize) ==
    [k \in 1..(stateSize * stateSize) |->
        IF k - 1 \in 0..(stateSize - 1) THEN expBlockIdentityScale ELSE 0]

\* bf.StateTrans.Weights.Data.Vector after Scale(0) and the loop that
\* stores expBlockIdentityScale at Vector[i+stateSize*i], indices of Go
IdentityVector(stateSize) ==
    [k \in 1..(stateSize * stateSize) |->
        IF \E i \in 0..(stateSize - 1) : k - 1 = i + stateSize * i
        THEN expBlockIdentityScale ELSE 0]

\* make(linalg.Vector, n)
MakeVector(n) == [k \in 1..n |-> 0]

\* the expBlockFunc NewExpBlock builds; draws[i][j] is the value drawn
\* for InputWeights[i].Vector[j]
NewExpBlock(inSize, stateSize, draws) ==
    [Weights      |-> IdentityVector(stateSize),
     Biases       |-> MakeVector(stateSize),
     InputWeights |-> [i \in 1..inSize |->
                          [j \in 1..stateSize |-> draws[i][j]]],
     InitState    |-> MakeVector(stateSize)]

\* a *autofunc.Variable of the block: the field that holds it and, for
\* InputWeights, its index
Variable(field, idx) == [field |-> field, idx |-> idx]

\* e.StateTrans.Parameters(): the layer's weights and biases
DenseLayerParameters == <<Variable("Weights", 0), Variable("Biases", 0)>>

\* func (e *expBlockFunc) Parameters() []*autofunc.Variable for a block
\* with n input weights
expBlockFuncParameters(n) ==
    <<Variable("InitState", 0)>>
        \o [i \in 1..n |-> Variable("InputWeights", i)]
        \o DenseLayerParameters

\* the entry at row r, column c of a DenseLayer's weight vector for n
\* inputs (row-major)
WeightAt(vec, n, r, c) == vec[(r - 1) * n + c]

\* NewExpBlock(inSize, stateSize) for the sizes held in expIn
NewExpBlockCall ==
    /\ expN = 0
    /\ expW = <<>>
    /\ \E draws \in [1..expIn[1] -> [1..expIn[2] -> WeightDraws]] :
          LET bf == NewExpBlock(expIn[1], expIn[2], draws)
          IN  /\ expW' = bf.Weights
              /\ expBias' = bf.Biases
              /\ expEmb' = bf.InputWeights
              /\ expInit' = bf.InitState
    /\ expN' = 1
    /\ UNCHANGED <<expIn, expState>>
    /\ UNCHANGED <<serVars, dsVars, scVars>>
    /\ UNCHANGED outsideAux

\* Parameters() on the block built
expBlockFuncParametersCall ==
    /\ expN = 1
    /\ expState' = expBlockFuncParameters(Len(expEmb))
    /\ expN' = 2
    /\ UNCHANGED <<expW, expBias, expEmb, expIn, expInit>>
    /\ UNCHANGED <<serVars, dsVars, scVars>>
    /\ UNCHANGED outsideAux

\* before construction: expIn holds the arguments inSize and stateSize
NewExpInit ==
    /\ expW = <<>>
    /\ expBias = <<>>
    /\ expEmb = <<>>
    /\ expIn \in (0..InSize) \X (0..StateSize)
    /\ expInit = <<>>
    /\ expState = <<>>
    /\ expN = 0

InitNewExp ==
    /\ NewExpInit /\ SerializeIdle /\ DeserializeIdle /\ SeqCostIdle
    /\ TrainerIdle /\ RewardIdle /\ SamplingIdle /\ FeedbackIdle /\ NoiseIdle

NextNewExp == NewExpBlockCall \/ expBlockFuncParametersCall

SpecNewExp == InitNewExp /\ [][NextNewExp]_vars

\* C30: NewExpBlock(inSize, stateSize) leaves a stateSize x stateSize
\* weight matrix with 0.8 on the diagonal and 0 elsewhere, an all-zero
\* bias of length stateSize and exactly inSize embeddings of length
\* stateSize; Parameters lists the initial state, every embedding and the
\* transition layer's weights and biases, each exactly once.
C30_NewExpBlock ==
    (expN >= 1) =>
        LET inSize == expIn[1]
            stateSize == expIn[2]
        IN  /\ Len(expW) = stateSize * stateSize
            /\ \A r, c \in 1..stateSize :
                  WeightAt(expW, stateSize, r, c) =
                      IF r = c THEN expBlockIdentityScale ELSE 0
            /\ stateSize = StateSize =>
                  \A r, c \in 1..stateSize :
                      WeightAt(expW, stateSize, r, c) = IdentityWeights[r][c]
            /\ Len(expBias) = stateSize
            /\ \A k \in 1..stateSize : expBias[k] = 0
            /\ Len(expEmb) = inSize
            /\ \A i \in 1..inSize : Len(expEmb[i]) = stateSize
            /\ Len(expInit) = stateSize
            /\ (expN = 2) =>
                  /\ Len(expState) = inSize + 3
                  /\ \A a, b \in 1..Len(expState) :
                        expState[a] = expState[b] => a = b
                  /\ {expState[a] : a \in 1..Len(expState)} =
                        {Variable("InitState", 0), Variable("Weights", 0),
                         Variable("Biases", 0)}
                        \cup {Variable("InputWeights", i) : i \in 1..inSize}

C30_Witness ==
    /\ expN = 2
    /\ expIn = <<InSize, StateSize>>
    /\ StateSize >= 2
    /\ WeightAt(expW, StateSize, StateSize, StateSize) = expBlockIdentityScale
    /\ WeightAt(expW, StateSize, 1, StateSize) = 0
    /\ expEmb[InSize][StateSize] # 0
    /\ Len(expState) = InSize + 3

\* 0.8^n as the fraction ScaleNum(n) / ScaleDen(n)
ScaleNum(n) == Pow(expBlockIdentityScale \div 10, n)
ScaleDen(n) == Pow(Hundred \div 10, n)

\* the configuration C20 speaks of
IdentityStyle ==
    /\ expW = IdentityWeights
    /\ expBias = ZeroState
    /\ expEmb = ZeroEmbeddings

\* the original reading of C20: with the identity-style initialization and
\* zero embeddings the state after n steps is 0.8^n times the initial
\* state (to within the truncation of two operations per step)
C20_GeometricDecay ==
    IdentityStyle =>
        \A k \in 1..StateSize :
            Abs(expState[k] * ScaleDen(expN) - ScaleNum(expN) * expInit[k])
               <= 2 * expN * ScaleDen(expN)

\* C20: with the identity-style initialization and zero embeddings every
\* state entry evolves on its own and keeps its sign; a zero entry stays
\* zero, and a non-zero entry is, after n >= 1 steps, strictly smaller in
\* magnitude than 0.8^n times its initial value (each step is
\* x -> tanh(0.8 x), not x -> 0.8 x).
C20_TanhDecay ==
    IdentityStyle =>
        \A k \in 1..StateSize :
            /\ expInit[k] = 0 => expState[k] = 0
            /\ expInit[k] > 0 => expState[k] >= 0
            /\ expInit[k] < 0 => expState[k] <= 0
            /\ (expInit[k] # 0 /\ expN >= 1) =>
                  Abs(expState[k]) * ScaleDen(expN) < ScaleNum(expN) * Abs(expInit[k])
            /\ \A l \in 1..StateSize :
                  expInit[l] = expInit[k] => expState[l] = expState[k]

\* from the state (1, -0.5) one step on a one-hot input gave
\* (tanh 0.8, -tanh 0.4) = (0.66, -0.37), not (0.8, -0.4)
C20_Witness ==
    /\ IdentityStyle
    /\ expIn = <<Hundred, 0>>
    /\ expInit = <<100, -50>>
    /\ expN = 1
    /\ expState = <<66, -37>>

\* ---------------------------------------------------------------------
\* The per-timestep sigmoid cross-entropy costs of the sequence trainers:
\* the upstream gradients their helpers hand to the discriminator and to
\* the generator, and the costs they report. Values are in units of
\* 1/Hundred.

\* the raw score the discriminator gives one timestep
Scores == {-Hundred, Hundred}

\* the last component of a generator output: 0 and about ln 3
StopLogits == {0, 110}

\* the real batches: one or two sequences of zero to three timesteps
RealShapes == {<<a>> : a \in 0..3} \cup {<<a, b>> : a, b \in 0..2}

\* the generated batches <<count, MaxLen>>
GenShapes == {<<1, 1>>, <<1, 2>>, <<1, 3>>, <<2, 1>>, <<2, 2>>}

\* the logistic function near zero: 1/2 + x/4 - x^3/48
Sigmoid(x) ==
    (Hundred \div 2) + Trunc(x, 4) - Trunc(x * x * x, 48 * Hundred * Hundred)

\* log(1 + e^x) near zero: ln 2 + x/2 + x^2/8 - x^4/192
Softplus(x) ==
    69 + Trunc(x, 2) + Trunc(x * x, 8 * Hundred)
       - Trunc(x * x * x * x, 192 * Hundred * Hundred * Hundred)

\* neuralnet.SigmoidCECost{}.Cost(linalg.Vector{label}, x).Output()[0]
SigmoidCECost(label, x) == label * Softplus(-x) + (1 - label) * Softplus(x)

\* what cost.PropagateGradient(linalg.Vector{scale}, g) adds to g[x]
SigmoidCEGradient(label, x, scale) == scale * (Sigmoid(x) - Hundred * label)

\* math.Exp on the stop logits
ExpStop(x) == IF x = 0 THEN Hundred ELSE 3 * Hundred

\* autofunc.Softmax{}.Apply
Softmax(v) ==
    [j \in DOMAIN v |->
        Trunc(Hundred * ExpStop(v[j]), SumSeq([k \in DOMAIN v |-> ExpStop(v[k])]))]

\* r.GenActivation.Apply, when GenActivation is not nil
GenActivation(v) ==
    IF scAct = "nil" THEN v ELSE [k \in DOMAIN v |-> HyperbolicTangent(v[k])]

\* prefix: autofunc.Slice(outVec, 0, len(x)-1), activated
discInput(genOut) ==
    [i \in DOMAIN genOut |->
        [j \in DOMAIN genOut[i] |->
            GenActivation(SubSeq(genOut[i][j], 1, Len(genOut[i][j]) - 1))]]

\* endProbs: the softmax over the last components of one sequence
discMask(genOut) ==
    [i \in DOMAIN genOut |->
        Softmax([j \in DOMAIN genOut[i] |-> Last(genOut[i][j])])]

\* the keys of g that a back-propagation through a graph with these
\* dependencies writes to: a variable that is not a key of g is skipped
Written(deps, keys) == deps \cap keys

\* g[outVar] = linalg.Vector{0} and delete(g, outVar), on the keys of g
WithOutVar(keys) == keys \cup {"outVar"}
WithoutOutVar(keys) == keys \ {"outVar"}

\* a variant that hands the cost its argument with the mask left out
maskedOutUnmasked(out, mask) == out

\* maskedOut := autofunc.Mul(outVar, mask[i][j])
maskedOut(out, mask) == MulFix(out, mask)

\* propGenThroughDisc: per timestep, the gradient of
\* SigmoidCECost(desiredVal, out * mask), propagated with scale 1, at the
\* discriminator's output (upstream) and at the mask (maskGrad, which
\* reaches the pool variables only when they are keys of g); then
\* out.Gradient(upstream, g)
propGenThroughDisc(out, mask, keys, desiredVal) ==
    [upstream |->
        [i \in DOMAIN out |-> [j \in DOMAIN out[i] |->
            MulFix(mask[i][j],
                   SigmoidCEGradient(desiredVal,
                                     maskedOut(out[i][j], mask[i][j]), 1))]],
     maskGrad |->
        [i \in DOMAIN out |-> [j \in DOMAIN out[i] |->
            IF "pool" \in keys
            THEN MulFix(out[i][j],
                        SigmoidCEGradient(desiredVal,
                                          maskedOut(out[i][j], mask[i][j]), 1))
            ELSE 0]],
     desiredVal |-> desiredVal,
     scale |-> 1,
     wrote |-> Written({"disc", "pool"}, keys),
     keysAfter |-> WithoutOutVar(WithOutVar(keys))]

\* a variant that sends the generator the negated label-0 gradient
propGenThroughGenMinimax(discOut, mask, keys) ==
    [through |->
        [upstream |->
            [i \in DOMAIN discOut |-> [j \in DOMAIN discOut[i] |->
                MulFix(mask[i][j],
                       SigmoidCEGradient(0, maskedOut(discOut[i][j], mask[i][j]), -1))]],
         maskGrad |->
            [i \in DOMAIN discOut |-> [j \in DOMAIN discOut[i] |->
                MulFix(discOut[i][j],
                       SigmoidCEGradient(0, maskedOut(discOut[i][j], mask[i][j]), -1))]],
         desiredVal |-> 0,
         scale |-> -1,
         wrote |-> {"pool"},
         keysAfter |-> {"pool"}],
     wrote |-> Written({"gen"}, keys),
     keysAfter |-> keys]

\* propGenThroughGen: the label-1 cost into a temporary gradient keyed by
\* the pool variables, then genOut.Gradient(upstream, g)
propGenThroughGen(discOut, mask, keys) ==
    [through |-> propGenThroughDisc(discOut, mask, {"pool"}, 1),
     wrote |-> Written({"gen"}, keys),
     keysAfter |-> keys]

\* genGradients: the generated batch through the discriminator, once into
\* discGrad with label 0 and once into genGrad
genGradients ==
    /\ scOut.op = "none"
    /\ scGenOut # <<>>
    /\ scOut' = [op |-> "genGradients",
                 discInput |-> discInput(scGenOut),
                 discMask |-> discMask(scGenOut),
                 disc |-> propGenThroughDisc(scDisc, discMask(scGenOut), {"disc"}, 0),
                 gen |-> propGenThroughGen(scDisc, discMask(scGenOut), {"gen"})]
    /\ UNCHANGED <<scReal, scGenOut, scDisc, scAct>>
    /\ UNCHANGED <<serVars, dsVars, expVars>>
    /\ UNCHANGED outsideAux

\* the length-terminating SampleGenCost, on the first generated sequence
SampleGenCost ==
    /\ scOut.op = "none"
    /\ scGenOut # <<>>
    /\ scOut' = [op |-> "SampleGenCost",
                 discInput |-> discInput(<<scGenOut[1]>>)[1],
                 discMask |-> discMask(<<scGenOut[1]>>)[1],
                 totalCost |->
                    SumSeq([j \in DOMAIN scDisc[1] |->
                        MulFix(SigmoidCECost(0, scDisc[1][j]),
                               discMask(<<scGenOut[1]>>)[1][j])])]
    /\ UNCHANGED <<scReal, scGenOut, scDisc, scAct>>
    /\ UNCHANGED <<serVars, dsVars, expVars>>
    /\ UNCHANGED outsideAux

\* a variant that gives every timestep the cost's gradient
sampleGradientsEveryTimestep(output) ==
    [i \in DOMAIN output |->
        [j \in DOMAIN output[i] |-> SigmoidCEGradient(1, output[i][j], 1)]]

\* the upstream of the length-terminating sampleGradients: linalg.Vector{0}
\* before the last timestep, the gradient of the label-1 cost at the last
sampleGradientsUpstream(output) ==
    [i \in DOMAIN output |->
        [j \in DOMAIN output[i] |->
            IF j < Len(output[i]) THEN 0
            ELSE SigmoidCEGradient(1, output[i][j], 1)]]

\* sampleGradients; outSeq[len(outSeq)-1] panics on an empty sequence
sampleGradients ==
    /\ scOut.op = "none"
    /\ scReal # <<>>
    /\ scOut' = IF \E i \in DOMAIN scReal : scReal[i] = <<>>
                THEN [op |-> "sampleGradients", status |-> "panic_index"]
                ELSE [op |-> "sampleGradients", status |-> "ok",
                      upstream |-> sampleGradientsUpstream(scReal),
                      wrote |-> Written({"disc"}, {"disc"})]
    /\ UNCHANGED <<scReal, scGenOut, scDisc, scAct>>
    /\ UNCHANGED <<serVars, dsVars, expVars>>
    /\ UNCHANGED outsideAux

\* the sequence-classifying discrimGradient(res, desired, g): real results
\* with desired 1, generated results with desired 0
discrimGradient(desired) ==
    /\ scOut.op = "none"
    /\ IF desired = 1 THEN scReal # <<>> ELSE scDisc # <<>>
    /\ LET res == IF desired = 1 THEN scReal ELSE scDisc
       IN  scOut' = [op |-> "discrimGradient", desired |-> desired,
                     upstream |->
                        [i \in DOMAIN res |-> [j \in DOMAIN res[i] |->
                            SigmoidCEGradient(desired, res[i][j], 1)]],
                     wrote |-> Written({"disc"}, {"disc"})]
    /\ UNCHANGED <<scReal, scGenOut, scDisc, scAct>>
    /\ UNCHANGED <<serVars, dsVars, expVars>>
    /\ UNCHANGED outsideAux

\* seqfunc.AddAll(seqfunc.Map(classifications, costFunc))
AddAllCost(label, res) ==
    SumSeq([i \in DOMAIN res |->
        SumSeq([j \in DOMAIN res[i] |-> SigmoidCECost(label, res[i][j])])])

\* the policy-gradient DiscCost: generated and real batch have one shape
DiscCost ==
    /\ scOut.op = "none"
    /\ scReal # <<>>
    /\ DOMAIN scReal = DOMAIN scDisc
    /\ \A i \in DOMAIN scReal : Len(scReal[i]) = Len(scDisc[i])
    /\ scOut' = [op |-> "DiscCost",
                 cost |-> AddAllCost(1, scReal) + AddAllCost(0, scDisc)]
    /\ UNCHANGED <<scReal, scGenOut, scDisc, scAct>>
    /\ UNCHANGED <<serVars, dsVars, expVars>>
    /\ UNCHANGED outsideAux

\* the outputs of one batch: the generator's vector is <<content, stop
\* logit>>, with a content that tells the timesteps apart
GenOutOf(stops) ==
    [i \in DOMAIN stops |-> [j \in DOMAIN stops[i] |-> <<10 * i + j, stops[i][j]>>]]

SeqCostInit ==
    /\ scOut = [op |-> "none"]
    /\ \/ /\ \E sh \in RealShapes :
               scReal \in {r \in [DOMAIN sh -> UNION {[1..n -> Scores] : n \in 0..3}] :
                              \A i \in DOMAIN sh : Len(r[i]) = sh[i]}
          /\ scGenOut = <<>>
          /\ scDisc = <<>>
          /\ scAct = "nil"
       \/ /\ scReal = <<>>
          /\ scAct \in {"nil", "set"}
          /\ \E sh \in GenShapes :
               /\ scDisc \in [1..sh[1] -> [1..sh[2] -> Scores]]
               /\ \E stops \in [1..sh[1] -> [1..sh[2] -> StopLogits]] :
                     scGenOut = GenOutOf(stops)
       \/ /\ scAct = "nil"
          /\ \E n \in 1..2 :
               /\ scReal \in [1..1 -> [1..n -> Scores]]
               /\ scDisc \in [1..1 -> [1..n -> Scores]]
               /\ \E stops \in [1..1 -> [1..n -> StopLogits]] :
                     scGenOut = GenOutOf(stops)

InitSeqCost ==
    /\ SeqCostInit /\ SerializeIdle /\ DeserializeIdle /\ ExpIdle
    /\ TrainerIdle /\ RewardIdle /\ SamplingIdle /\ FeedbackIdle /\ NoiseIdle

NextSeqCost ==
    \/ genGradients
    \/ SampleGenCost
    \/ sampleGradients
    \/ \E desired \in {0, 1} : discrimGradient(desired)
    \/ DiscCost

SpecSeqCost == InitSeqCost /\ [][NextSeqCost]_vars

\* the gradient of scale * SigmoidCECost(label, .) at the cost's argument,
\* carried to the discriminator's output through the mask, at every
\* timestep of every generated sequence
CostUpstream(label, scale) ==
    [i \in DOMAIN scDisc |-> [j \in DOMAIN scDisc[i] |->
        MulFix(scOut.discMask[i][j],
               SigmoidCEGradient(label,
                                 MulFix(scDisc[i][j], scOut.discMask[i][j]), scale))]]

\* C21 as stated: the generator's upstream is that of the sigmoid
\* cross-entropy of the discriminator's score on generated output with
\* target label 0, back-propagated with scale -1, and reaches generator
\* parameters only (it does not hold: see C21_Counterexample).
C21_GeneratorLabelZero ==
    scOut.op = "genGradients" =>
        /\ scOut.gen.through.upstream = CostUpstream(0, -1)
        /\ scOut.gen.wrote = {"gen"}

\* C21: in the length-terminating trainer the generator's gradient is that
\* of the sigmoid cross-entropy of the discriminator's score on generated
\* output with target label 1, back-propagated with scale +1 through the
\* discriminator into a temporary gradient over the generator's outputs and
\* from there into generator parameters only; the discriminator's gradient
\* of the same trainer uses label 0 for generated and label 1 for real
\* data and reaches discriminator parameters only.
C21_GeneratorLabelOne ==
    /\ scOut.op = "genGradients" =>
        /\ scOut.gen.through.upstream = CostUpstream(1, 1)
        /\ scOut.gen.through.wrote = {"pool"}
        /\ scOut.gen.wrote = {"gen"}
        /\ scOut.disc.upstream = CostUpstream(0, 1)
        /\ scOut.disc.wrote = {"disc"}
    /\ (scOut.op = "sampleGradients" /\ scOut.status = "ok") =>
        /\ scOut.wrote = {"disc"}
        /\ \A i \in DOMAIN scReal :
              Last(scOut.upstream[i]) = SigmoidCEGradient(1, Last(scReal[i]), 1)

\* one generated timestep the discriminator scores 1.0: the generator's
\* upstream is sigmoid(1) - 1 = -0.27, the discriminator's is sigmoid(1)
C21_Witness ==
    /\ scOut.op = "genGradients"
    /\ scDisc = <<<<Hundred>>>>
    /\ scOut.gen.through.upstream = <<<<-27>>>>
    /\ scOut.disc.upstream = <<<<73>>>>

\* there the label-0 cost with scale -1 would have sent -sigmoid(1) = -0.73
C21_Counterexample ==
    ~ (/\ scOut.op = "genGradients"
       /\ scDisc = <<<<Hundred>>>>
       /\ scOut.gen.through.upstream # CostUpstream(0, -1))

\* the stop logits of generated sequence i: the last component of each of
\* its output vectors
StopLogitsOf(i) == [j \in DOMAIN scGenOut[i] |-> Last(scGenOut[i][j])]

\* the generator's output at (i, j) without its last component, through
\* GenActivation when the trainer has one
WithoutLast(i, j) ==
    GenActivation(SubSeq(scGenOut[i][j], 1, Len(scGenOut[i][j]) - 1))

\* C22: in the length-terminating trainer the cost of a generated sequence
\* is sum over t of discMask[t] * CE(label, discOut[t]): the training
\* gradient hands each discriminator output the derivative of that sum,
\* discMask[t] * (sigmoid(discOut[t]) - label), and SampleGenCost reports
\* that sum for label 0; discMask is the softmax over the stop logits of
\* that one sequence and the discriminator's input is the output without
\* its last component.
C22_SameMaskedCost ==
    /\ scOut.op = "genGradients" =>
        \A i \in DOMAIN scGenOut :
            /\ scOut.discMask[i] = Softmax(StopLogitsOf(i))
            /\ \A j \in DOMAIN scGenOut[i] :
                /\ scOut.discInput[i][j] = WithoutLast(i, j)
                /\ scOut.disc.upstream[i][j] =
                      MulFix(scOut.discMask[i][j],
                             SigmoidCEGradient(0, scDisc[i][j], 1))
                /\ scOut.gen.through.upstream[i][j] =
                      MulFix(scOut.discMask[i][j],
                             SigmoidCEGradient(1, scDisc[i][j], 1))
    /\ scOut.op = "SampleGenCost" =>
        /\ scOut.discMask = Softmax(StopLogitsOf(1))
        /\ \A j \in DOMAIN scGenOut[1] : scOut.discInput[j] = WithoutLast(1, j)
        /\ scOut.totalCost =
              SumSeq([j \in DOMAIN scDisc[1] |->
                  MulFix(scOut.discMask[j], SigmoidCECost(0, scDisc[1][j]))])

\* a sequence of two timesteps with stop logits 0 and ln 3 (mask 0.25 and
\* 0.75), both scored 1.0: training hands the first discriminator output
\* 0.25 * sigmoid(0.25) = 0.14, the masked cost's derivative is
\* 0.25 * sigmoid(1) = 0.18
C22_Witness ==
    /\ scOut.op = "genGradients"
    /\ scDisc = <<<<Hundred, Hundred>>>>
    /\ scOut.discMask = <<<<25, 75>>>>
    /\ scOut.disc.upstream[1][1] = 14
    /\ MulFix(25, SigmoidCEGradient(0, Hundred, 1)) = 18

\* the upstream has exactly the shape of the output sequences
SameShape(upstream, output) ==
    /\ DOMAIN upstream = DOMAIN output
    /\ \A i \in DOMAIN output : DOMAIN upstream[i] = DOMAIN output[i]

\* every timestep of every sequence receives the gradient of the
\* cross-entropy cost for the label
EveryTimestep(upstream, output, label) ==
    \A i \in DOMAIN output : \A j \in DOMAIN output[i] :
        upstream[i][j] = SigmoidCEGradient(label, output[i][j], 1)

\* C23 as stated: in every sequence trainer, for every sequence of the real
\* and of the generated batch, every timestep's discriminator output
\* receives the cross-entropy upstream for its label, in an upstream of
\* the shape of the output sequences (it does not hold for the real batch
\* of the length-terminating trainer).
C23_EveryTimestep ==
    /\ scOut.op = "discrimGradient" =>
        LET res == IF scOut.desired = 1 THEN scReal ELSE scDisc
        IN  SameShape(scOut.upstream, res)
            /\ EveryTimestep(scOut.upstream, res, scOut.desired)
    /\ (scOut.op = "sampleGradients" /\ scOut.status = "ok") =>
        /\ SameShape(scOut.upstream, scReal)
        /\ EveryTimestep(scOut.upstream, scReal, 1)
    /\ scOut.op = "DiscCost" =>
        scOut.cost = AddAllCost(1, scReal) + AddAllCost(0, scDisc)

\* C23: the sequence-classification trainer (discrimGradient) gives every
\* timestep of every real and generated sequence the cross-entropy
\* upstream for its label, and the policy-gradient DiscCost sums the cost
\* over all timesteps and batch elements; the length-terminating
\* sampleGradients gives a non-empty real sequence the label-1 upstream at
\* its last timestep only and zero before it, and panics on an empty
\* sequence. Every upstream has exactly the shape of the discriminator's
\* output sequences.
C23_UpstreamPerTrainer ==
    /\ scOut.op = "discrimGradient" =>
        LET res == IF scOut.desired = 1 THEN scReal ELSE scDisc
        IN  SameShape(scOut.upstream, res)
            /\ EveryTimestep(scOut.upstream, res, scOut.desired)
    /\ scOut.op = "sampleGradients" =>
        /\ scOut.status = "panic_index" <=> \E i \in DOMAIN scReal : scReal[i] = <<>>
        /\ scOut.status = "ok" =>
            /\ SameShape(scOut.upstream, scReal)
            /\ \A i \in DOMAIN scReal : \A j \in DOMAIN scReal[i] :
                  scOut.upstream[i][j] =
                     IF j = Len(scReal[i])
                     THEN SigmoidCEGradient(1, scReal[i][j], 1)
                     ELSE 0
    /\ scOut.op = "genGradients" =>
        /\ SameShape(scOut.disc.upstream, scDisc)
        /\ SameShape(scOut.gen.through.upstream, scDisc)
    /\ scOut.op = "DiscCost" =>
        scOut.cost = AddAllCost(1, scReal) + AddAllCost(0, scDisc)

\* a real sequence of two timesteps, both scored 1.0, in the
\* length-terminating trainer: upstream 0 and sigmoid(1) - 1
C23_Witness ==
    /\ scOut.op = "sampleGradients"
    /\ scReal = <<<<Hundred, Hundred>>>>
    /\ scOut.upstream = <<<<0, -27>>>>

\* ---------------------------------------------------------------------
\* The policy-gradient trainer with gradient transformers.

\* model.GenTrans = &sgd.RMSProp{...}; model.DiscTrans = &sgd.RMSProp{...}:
\* the caller's assignments before training starts, either may stay nil
SetTransformers ==
    /\ kind = "policy"
    /\ UNCHANGED outsideTrainer
    /\ history = <<>>
    /\ \E g \in BOOLEAN, d \in BOOLEAN :
          /\ GenTrans' = [set |-> g, calls |-> 0]
          /\ DiscTrans' = [set |-> d, calls |-> 0]
    /\ UNCHANGED <<kind, origin, GenIterations, DiscIterations, RandomSize,
                   DiscountFactor, iterIdx, genParams, discParams, history, last,
                   blob, paramVals, optSteps>>

\* a trainer with separate networks
TransformInit ==
    /\ TrainerInit
    /\ RandomSize = 1
    /\ DiscountFactor = <<0, 1>>
    /\ genParams \cap discParams = {}

InitTransform ==
    TransformInit /\ RewardIdle /\ SamplingIdle /\ FeedbackIdle /\ AuxIdle

NextTransform == SetTransformers \/ GradientCall

SpecTransform == InitTransform /\ [][NextTransform]_vars

\* one Transform call on raw gave out, by a transformer that went from t to
\* tNext; or, for a nil transformer, no call
TransformedOnce(t, tNext, raw, out) ==
    IF t.set
    THEN tNext = [set |-> TRUE, calls |-> t.calls + 1] /\ out = Transform(raw)
    ELSE tNext = t /\ out = raw

\* C24: a discriminator-phase Gradient call of the policy-gradient trainer
\* calls DiscTrans.Transform exactly once, on the discriminator's gradient,
\* and never GenTrans; a generator-phase call calls GenTrans.Transform
\* exactly once, on the generator's gradient, and never DiscTrans; a nil
\* transformer leaves its gradient as it was; so each transformer's state
\* advances only on calls of its own phase.
C24_TransformOwnPhase ==
    [][ (Len(history') = Len(history) + 1) =>
          /\ (last'.status = "ok" /\ last'.branch = "disc") =>
                /\ TransformedOnce(DiscTrans, DiscTrans', last'.raw.disc, last'.sub.disc)
                /\ GenTrans' = GenTrans
                /\ last'.sub.gen = last'.raw.gen
          /\ (last'.status = "ok" /\ last'.branch = "gen") =>
                /\ TransformedOnce(GenTrans, GenTrans', last'.raw.gen, last'.sub.gen)
                /\ DiscTrans' = DiscTrans
                /\ last'.sub.disc = last'.raw.disc
          /\ last'.status # "ok" => UNCHANGED <<GenTrans, DiscTrans>>
      ]_vars

\* two discriminator calls and one generator call with both transformers
\* set: DiscTrans has transformed twice, GenTrans once, and the generator's
\* gradient of the last call is not the raw one
C24_Witness ==
    /\ history = <<"disc", "disc", "gen">>
    /\ DiscTrans = [set |-> TRUE, calls |-> 2]
    /\ GenTrans = [set |-> TRUE, calls |-> 1]
    /\ last.sub.gen # last.raw.gen
    /\ last.sub.disc = last.raw.disc

\* ---------------------------------------------------------------------
\* The length-terminating trainer written and read back.

\* the bytes of a serialized slice
BytesOf(data) ==
    [form |-> "slice",
     elems |-> [i \in DOMAIN data |-> data[i].type],
     vals |-> [i \in DOMAIN data |-> data[i].val],
     json |-> "vector"]

\* the bytes with the last element taken away, or with one element added
Altered(data, how) ==
    IF how = "shorter" THEN SubSeq(data, 1, Len(data) - 1)
    ELSE Append(data, [type |-> how, val |-> 0])

\* DeserializeRecurrent(data) on the bytes the last Serialize returned
DeserializeSerialized ==
    /\ serObj.type = "lenterm"
    /\ serOut.called
    /\ serOut.err = NoError
    /\ ~dsOut.called
    /\ dsIn' = BytesOf(serOut.data)
    /\ dsOut' = [called |-> TRUE, by |-> "DeserializeRecurrent",
                 err |-> DeserializeLenterm(dsIn').err,
                 obj |-> DeserializeLenterm(dsIn').obj]
    /\ UNCHANGED <<serVars, expVars, scVars>>
    /\ UNCHANGED outsideAux

\* DeserializeRecurrent on those bytes with an element less or more
DeserializeAltered ==
    /\ serObj.type = "lenterm"
    /\ serOut.called
    /\ serOut.err = NoError
    /\ ~dsOut.called
    /\ \E how \in {"shorter", "Func", "Int"} :
          dsIn' = BytesOf(Altered(serOut.data, how))
    /\ dsOut' = [called |-> TRUE, by |-> "altered",
                 err |-> DeserializeLenterm(dsIn').err,
                 obj |-> DeserializeLenterm(dsIn').obj]
    /\ UNCHANGED <<serVars, expVars, scVars>>
    /\ UNCHANGED outsideAux

InitRoundTrip ==
    /\ SerializeInit /\ serObj.type = "lenterm"
    /\ DeserializeIdle /\ ExpIdle /\ SeqCostIdle
    /\ TrainerIdle /\ RewardIdle /\ SamplingIdle /\ FeedbackIdle /\ NoiseIdle

NextRoundTrip ==
    \/ SerializeObject("lenterm")
    \/ DeserializeSerialized
    \/ DeserializeAltered

SpecRoundTrip == InitRoundTrip /\ [][NextRoundTrip]_vars

\* C25: a successful Serialize of the length-terminating trainer writes
\* four elements when GenActivation is nil and five otherwise;
\* DeserializeRecurrent of those bytes succeeds and restores RandomSize and
\* MaxLen, with GenActivation nil exactly when it was nil; and it accepts
\* no other element count.
C25_RoundTrip ==
    /\ (serOut.called /\ serOut.err = NoError) =>
          Len(serOut.data) = IF serObj.parts["GenActivation"] = "nil" THEN 4 ELSE 5
    /\ (dsOut.called /\ dsOut.by = "DeserializeRecurrent") =>
          /\ dsOut.err = "nil"
          /\ dsOut.obj.type = "Recurrent"
          /\ dsOut.obj.RandomSize = serObj.RandomSize
          /\ dsOut.obj.MaxLen = serObj.MaxLen
          /\ dsOut.obj.GenActivation <=> serObj.parts["GenActivation"] # "nil"
    /\ (dsOut.called /\ dsOut.err = "nil") => Len(dsIn.elems) \in {4, 5}
    /\ (dsOut.called /\ Len(dsIn.elems) \notin {4, 5}) => dsOut.obj = NoObject

\* a trainer with an activation, RandomSize 2 and MaxLen 3 came back with
\* an activation, RandomSize 2 and MaxLen 3 from five elements
C25_Witness ==
    /\ dsOut.called
    /\ dsOut.by = "DeserializeRecurrent"
    /\ serObj.parts["GenActivation"] = "Serializer"
    /\ Len(dsIn.elems) = 5
    /\ dsOut.obj.GenActivation
    /\ dsOut.obj.RandomSize = 2
    /\ dsOut.obj.MaxLen = 3

\* the sum of the feedback gradients of the lanes of u
RECURSIVE LaneSum(_)
LaneSum(u) ==
    IF u = <<>> THEN <<0>> ELSE VecAdd(Head(u).Feedback, LaneSum(Tail(u)))

\* C26: Parameters returns InitFeedback followed by all the wrapped block's
\* parameters, and InitFeedback alone when the wrapped block has none;
\* PropagateStart adds the feedback gradient of every lane to what
\* InitFeedback's accumulator held (when the map has one), and only then
\* propagates the lanes' inner state gradients into the wrapped block's
\* start state, which leaves that accumulator alone.
C26_ParametersAndStart ==
    /\ fbBack.op = "Parameters" =>
          /\ Head(fbBack.res) = KInit
          /\ Tail(fbBack.res) = fbBack.inner.params
          /\ (~fbBack.inner.learner \/ fbBack.inner.params = <<>>) =>
                fbBack.res = <<KInit>>
          /\ \A i, j \in DOMAIN fbBack.res : fbBack.res[i] = fbBack.res[j] => i = j
    /\ fbBack.op = "PropagateStart" =>
          /\ DOMAIN fbGrad = DOMAIN fbBack.before
          /\ DOMAIN fbBack.afterLanes = DOMAIN fbBack.before
          /\ KInit \in DOMAIN fbBack.before =>
                /\ fbBack.afterLanes[KInit] =
                      VecAdd(fbBack.before[KInit], LaneSum(fbBack.u))
                /\ fbGrad[KInit] = fbBack.afterLanes[KInit]
          /\ \A k \in DOMAIN fbBack.before \ {KInit} :
                fbBack.afterLanes[k] = fbBack.before[k]
          /\ fbBack.internal = [i \in DOMAIN fbBack.u |-> fbBack.u[i].Internal]

\* two lanes whose feedback gradients are 2 each, into an accumulator that
\* held 1: it holds 5 afterwards
C26_Witness ==
    /\ fbBack.op = "PropagateStart"
    /\ Len(fbBack.u) = 2
    /\ fbBack.u[1].Feedback = <<2>>
    /\ fbBack.u[2].Feedback = <<2>>
    /\ KInit \in DOMAIN fbBack.before
    /\ fbBack.before[KInit] = <<1>>
    /\ fbGrad[KInit] = <<5>>

\* ---------------------------------------------------------------------
\* The gradient maps handed to the helpers that use temporary variables.

\* the rg map of a PropagateRGradient call: nil, or a map with these keys
RMaps == {[nil |-> TRUE, keys |-> {}]} \cup {[nil |-> FALSE, keys |-> K] : K \in CallerKeySets}

\* feedbackBlockRResult.PropagateRGradient(u, uR, s, rg, g) on the result
\* of the last timestep: a nil g is replaced by a local map; every pool
\* variable is put into g and rg, the wrapped block propagates, and every
\* pool variable is deleted from both. Writing to a nil rg panics, after
\* the first pool variable was put into g.
ResultPropagateRGradient(rg, gNil, poolAcc, c) ==
    LET n == Len(fbStates)
        g2 == InnerPropagate(WithPool(fbGrad, n), poolAcc, c)
        rg2 == WithPool(NewMap(rg.keys), n)
    IN  /\ fbTime >= 1
        /\ fbBack.op = "none"
        /\ gNil => fbGrad = <<>>
        /\ IF rg.nil
           THEN /\ fbGrad' = IF gNil THEN fbGrad ELSE WithPool(fbGrad, 1)
                /\ fbBack' = [op |-> "PropagateRGradient", status |-> "panic_nil_map",
                              at |-> fbTime, keysBefore |-> DOMAIN fbGrad]
           ELSE /\ fbGrad' = IF gNil THEN fbGrad ELSE WithoutPool(g2, n)
                /\ fbBack' = [op |-> "PropagateRGradient", status |-> "ok",
                              at |-> fbTime, keysBefore |-> DOMAIN fbGrad,
                              rgBefore |-> rg.keys,
                              rgAfter |-> DOMAIN WithoutPool(rg2, n)]
        /\ UNCHANGED <<InitFeedback, fbStates, fbTime, fbLast>>
        /\ UNCHANGED outsideFeedback

ResultPropagateRGradientCall ==
    \E rg \in RMaps :
    \E gNil \in BOOLEAN :
    \E poolAcc \in [1..Len(fbStates) -> FbVectors] :
    \E c \in UpVectors : ResultPropagateRGradient(rg, gNil, poolAcc, c)

\* a FeedbackBlock run, or a generated batch of the length-terminating
\* trainer
InitPool ==
    \/ InitBackward
    \/ InitSeqCost /\ scGenOut # <<>>

NextPool ==
    \/ NextBackward
    \/ ResultPropagateRGradientCall
    \/ genGradients

SpecPool == InitPool /\ [][NextPool]_vars

\* no key of the map is a pool variable
NoPoolKey(K) == \A k \in K : k[1] # "pool"

\* C27: after feedbackBlockResult.PropagateGradient, after
\* PropagateRGradient and after the length-terminating propGenThroughDisc
\* have returned, the map passed in has the keys it had before: no pool
\* variable is left in it, and the map Gradient merges has generator and
\* discriminator parameters only.
C27_NoPoolLeak ==
    /\ fbBack.op = "PropagateGradient" =>
          /\ DOMAIN fbGrad = fbBack.keysBefore
          /\ NoPoolKey(DOMAIN fbGrad)
    /\ (fbBack.op = "PropagateRGradient" /\ fbBack.status = "ok") =>
          /\ DOMAIN fbGrad = fbBack.keysBefore
          /\ fbBack.rgAfter = fbBack.rgBefore
          /\ NoPoolKey(DOMAIN fbGrad) /\ NoPoolKey(fbBack.rgAfter)
    /\ scOut.op = "genGradients" =>
          /\ scOut.disc.keysAfter = {"disc"}
          /\ scOut.gen.through.keysAfter = {"pool"}
          /\ scOut.gen.keysAfter = {"gen"}
          /\ scOut.disc.keysAfter \cup scOut.gen.keysAfter = {"disc", "gen"}

\* two lanes whose pool variables each collected a feedback gradient of 2
\* during the call: the map is back to InitFeedback and the inner parameter
C27_Witness ==
    /\ fbBack.op = "PropagateGradient"
    /\ Len(fbStates) = 2
    /\ fbBack.pooled = << <<2>>, <<2>> >>
    /\ fbBack.keysBefore = {KInit, KInner}
    /\ DOMAIN fbGrad = {KInit, KInner}

\* the phase of a slot of the cycle
PhaseOf(slot) == IF slot < DiscIterations THEN "disc" ELSE "gen"

\* C28: the policy-gradient Gradient advances iterIdx before it looks at a
\* sample: a call that aborts on a wrong-typed sample has used up its slot
\* of the schedule, and the call after it takes the phase of the following
\* slot, not the phase of the aborted call's slot again.
C28_AbortedCallUsesSlot ==
    [][ (kind = "policy" /\ Period > 0 /\ Len(history') = Len(history) + 1) =>
          /\ last'.status = "panic_type" =>
                /\ iterIdx' = iterIdx + 1
                /\ last'.branch = PhaseOf(iterIdx % Period)
                /\ last'.at >= 1
          /\ last.status = "panic_type" =>
                /\ last.branch = PhaseOf((iterIdx - 1) % Period)
                /\ last'.branch = PhaseOf((((iterIdx - 1) % Period) + 1) % Period)
      ]_vars

\* the first call of a 1:1 trainer aborted on its second sample: the
\* discriminator slot is used up, iterIdx is 1 and the next slot is the
\* generator's
C28_Witness ==
    /\ kind = "policy"
    /\ GenIterations = 1
    /\ DiscIterations = 1
    /\ history = <<"disc">>
    /\ last.status = "panic_type"
    /\ last.at = 2
    /\ iterIdx = 1
    /\ PhaseOf(iterIdx % Period) = "gen"

====
